---- MODULE Spec2Model ----
(***************************************************************************)
(* A model of slarti's remote agent channel:                               *)
(*   - the agent process (slarti-remote): the stdin/stdout command loop,   *)
(*   - the session client (slarti-ssh AgentClient) as host selection in    *)
(*     the application drives it,                                          *)
(*   - the presence prober (slarti-ssh check_agent),                       *)
(*   - deployment, session termination, line framing and directory paging. *)
(* Each component has its own specification over the shared variables.     *)
(***************************************************************************)
EXTENDS Integers, Sequences, FiniteSets, TLC

VARIABLES
    \* ---- agent process (slarti-remote/src/main.rs) ----
    stdin,      \* the lines the peer wrote to the agent's stdin, in order
    pos,        \* how many of them reader.next_line() has consumed
    apc,        \* where main is: "read", "handle", "write", "flush", "exit_ok", "exit_err"
    line,       \* the line being processed
    json_line,  \* the serialized Response of this iteration
    wbuf,       \* BufWriter contents not yet flushed
    stdout,     \* lines flushed to stdout
    answered,   \* for each flushed line, the index in stdin of the line it answers
    \* ---- session client (slarti-ssh/src/lib.rs, slarti/src/main.rs on_select) ----
    cpc,        \* where on_select's session is
    sent,       \* Commands written and flushed to the agent's stdin, in order
    reads,      \* what each read_response_line call met, in order
    hello_res,  \* the Result of AgentClient::hello
    \* ---- presence prober (slarti-ssh/src/lib.rs check_agent) ----
    ppc,        \* "idle", "awaiting", "returned"
    dur,        \* the caller-supplied timeout, in seconds
    elapsed,    \* seconds since check_agent was called
    ssh,        \* the ssh child: its phase and the outcome it will have
    probe_res,  \* the Result check_agent returned
    \* ---- deployment (slarti-ssh deploy_agent, slarti deploy callback) ----
    dpc,        \* where the deploy workflow (and deploy_agent inside it) is
    denv,       \* the target: whether its user is root, and the version deployed
    dart,       \* the file name of the local artifact of this run
    cb_root,    \* is_root as the callback's own probe gave it
    d_root,     \* is_root as deploy_agent's probe gave it
    dsteps,     \* the outcome of each step of this deploy_agent run ("none": not run)
    dres,       \* the Result of this deploy_agent run
    prev,       \* the Result of the previous deploy_agent run on this target
    rsync_alive,\* an rsync child abandoned by its timeout is still running
    wlog,       \* the operations the workflow has called in this run, in order
    inflight,   \* the operations called and not yet returned
    verify_res, \* the Result of the workflow's check_agent
    dhello,     \* the Result of the workflow's hello
    \* ---- AgentClient::terminate (slarti-ssh/src/lib.rs) ----
    tpc,        \* where terminate is
    child,      \* the ssh child: "none" (not spawned), "running", "exited" or "killed"
    stdin_open, \* the child's stdin pipe is open
    pending,    \* lines in the BufWriter not yet written to the pipe
    waited,     \* milliseconds spent in the timed child.wait()
    tlog,       \* what terminate has done, in order
    \* ---- line framing (AgentClient::read_response_line, the agent's reader) ----
    rstream,    \* what the agent's stdout delivers to the client, line by line
    rlf,        \* the last of these lines ends with LF
    rpos,       \* how many of them the client's BufReader has consumed
    rres,       \* what each read_response_line call returned, in order
    stdin_lf,   \* the last line of the agent's stdin ends with LF
    \* ---- the agent's commands (slarti-remote handle_command) ----
    aenv,       \* which local sources the agent can read, and the service manager
    hlog,       \* the Commands handled in this environment and their Results
    \* ---- directory paging (slarti-remote handle_command, ListDir) ----
    lpath,      \* the directory a caller lists
    lk,         \* the page size of the caller's paging run
    lpages,     \* the Results of the paging run's calls, in order
    lcall,      \* one ListDir call with its Result
    overflow_checks, \* the agent was built with overflow-checks (the dev profile's default)
    \* ---- the Command codec (slarti-proto Command, serde_json) ----
    ccmd,       \* the Command a client encodes
    cpos,       \* "start", "encoded" or "decoded"
    cline,      \* the line serde_json::to_string gave for it
    cdec,       \* what serde_json::from_str gave for that line
    \* ---- the per-alias state file (slarti save_agent_state) ----
    spc,        \* where save_agent_state is: "start", "dir", "writing", "returned", "crashed"
    sprev,      \* the record persisted before the call, if any
    snew,       \* the record the call is given
    sfile,      \* <alias>.json: whether it exists and the bytes in it
    \* ---- the host-selection workflow (slarti on_select) ----
    wpc,        \* where on_select's task is: "idle", "checking", "session", "finish", "done"
    cfg_user,   \* the User the SSH configuration gives for the alias ("none": not set)
    sel_path,   \* the remote_path on_select computed
    sel_check,  \* the Result of on_select's check_agent
    status,     \* the status text the HostPanel shows
    records,    \* the records on_select wrote for the alias, in order
    \* ---- the Deploy button (slarti-host HostPanel, slarti deploy callback) ----
    deploy_running, \* HostPanel.deploy_running
    tasks,      \* where each deploy task spawned by the callback is, in spawn order
    ignored,    \* clicks the handler returned from without calling the callback
    \* ---- hello's timed read (AgentClient::hello, read_response_line) ----
    kpc,        \* "idle", "reading" (inside hello), "returned", "reading_again", "done"
    kwire,      \* pieces of the agent's output that have not reached the pipe yet
    kpipe,      \* pieces in the pipe and the BufReader, not yet taken by a read
    kline,      \* the pieces the read_line in progress has taken into `line`
    kcut,       \* the pieces hello's read had taken when its timeout fired
    kres        \* the Result of each read, in order

agentVars == <<stdin, pos, apc, line, json_line, wbuf, stdout, answered>>
clientVars == <<cpc, sent, reads, hello_res>>
probeVars == <<ppc, dur, elapsed, ssh, probe_res>>
deployVars ==
    <<dpc, denv, dart, cb_root, d_root, dsteps, dres, prev, rsync_alive, wlog, inflight,
      verify_res, dhello>>
termVars == <<tpc, child, stdin_open, pending, waited, tlog>>
frameVars == <<rstream, rlf, rpos, rres, stdin_lf>>
cmdVars == <<aenv, hlog>>
listVars == <<lpath, lk, lpages, lcall, overflow_checks>>
codecVars == <<ccmd, cpos, cline, cdec>>
saveVars == <<spc, sprev, snew, sfile>>
selectVars == <<wpc, cfg_user, sel_path, sel_check, status, records>>
panelVars == <<deploy_running, tasks, ignored>>
cancelVars == <<kpc, kwire, kpipe, kline, kcut, kres>>
pureVars == <<frameVars, cmdVars, listVars, codecVars, saveVars, selectVars, panelVars, cancelVars>>
vars == <<agentVars, clientVars, probeVars, deployVars, termVars, pureVars>>
notAgent == <<clientVars, probeVars, deployVars, termVars, pureVars>>
notClient == <<agentVars, probeVars, deployVars, termVars, pureVars>>
notProbe == <<agentVars, clientVars, deployVars, termVars, pureVars>>
notDeploy == <<agentVars, clientVars, probeVars, termVars, pureVars>>
notTerm == <<agentVars, clientVars, probeVars, deployVars, pureVars>>
notSession == <<agentVars, probeVars, deployVars, pureVars>>
notFrame == <<clientVars, probeVars, deployVars, termVars, cmdVars, listVars, codecVars, saveVars, selectVars, panelVars, cancelVars>>
notCmd == <<agentVars, clientVars, probeVars, deployVars, termVars, frameVars, listVars, codecVars, saveVars, selectVars, panelVars, cancelVars>>
notList == <<agentVars, clientVars, probeVars, deployVars, termVars, frameVars, cmdVars, codecVars, saveVars, selectVars, panelVars, cancelVars>>
notCodec == <<agentVars, clientVars, probeVars, deployVars, termVars, frameVars, cmdVars, listVars, saveVars, selectVars, panelVars, cancelVars>>
notSave == <<agentVars, clientVars, probeVars, deployVars, termVars, frameVars, cmdVars, listVars, codecVars, selectVars, panelVars, cancelVars>>
notSelect == <<agentVars, clientVars, probeVars, deployVars, termVars, frameVars, cmdVars, listVars, codecVars, saveVars, panelVars, cancelVars>>
notPanel == <<agentVars, clientVars, probeVars, deployVars, termVars, frameVars, cmdVars, listVars, codecVars, saveVars, selectVars, cancelVars>>
notCancel == <<agentVars, clientVars, probeVars, deployVars, termVars, frameVars, cmdVars, listVars, codecVars, saveVars, selectVars, panelVars>>

\* ------------------------------------------------------------------ bounds
MaxLines == 3       \* input lines fed to the agent in one run
MaxDur == 2         \* the largest timeout a caller passes to check_agent, in seconds
MaxClock == 4       \* how long a probe is watched, in seconds
MaxFrames == 2      \* lines on a stream whose framing is followed
MaxPages == 5       \* ListDir calls of one paging run that are followed
MaxHandled == 2     \* commands handled on one host that are followed
MaxPieces == 3      \* pieces a response line arrives in
MaxClicks == 3      \* clicks on Deploy that start a task, and clicks that are ignored

\* ------------------------------------------------------------- Result<T>
Ok(v) == [ok |-> TRUE, val |-> v]
Err(m) == [ok |-> FALSE, err |-> m]

\* ================================================================== WIRE
\* Capability (slarti-proto): the variants, by their snake_case wire names.
Capability ==
    {"sys_info", "static_config", "services_list",
     "containers_list", "net_listeners", "processes_summary"}

\* The Command variants handle_command matches, by Rust name.
CommandVariants == {"Hello", "SysInfo", "StaticConfig", "ServicesList", "ListDir"}

\* serde rename_all = "snake_case": variant name -> wire tag.
SnakeCase(v) ==
    CASE v = "Hello" -> "hello"
      [] v = "SysInfo" -> "sys_info"
      [] v = "StaticConfig" -> "static_config"
      [] v = "ServicesList" -> "services_list"
      [] v = "ListDir" -> "list_dir"
      [] v = "HelloAck" -> "hello_ack"
      [] v = "SysInfoOk" -> "sys_info_ok"
      [] v = "StaticConfigOk" -> "static_config_ok"
      [] v = "ServicesListOk" -> "services_list_ok"
      [] v = "ListDirOk" -> "list_dir_ok"
      [] v = "Error" -> "error"

\* The fields each Command variant requires (Option fields are not required).
RequiredKeys(v) ==
    CASE v = "Hello" -> {"id", "client_version"}
      [] v = "ListDir" -> {"id", "path"}
      [] OTHER -> {"id"}

\* ================================================================= AGENT
\* ---- what can arrive on stdin -------------------------------------------
\* A line is raw bytes.  kind "empty" is "", "spaces" is whitespace only,
\* "badutf8" holds bytes that are not UTF-8, "text" is UTF-8 that is not a
\* JSON object, "obj" is a JSON object with the keys in `keys`.
Ids == {1, 7}
Home == <<"home", "u">>
TildeDir == <<"~">>                  \* the path "~/"
MissingDir == <<"nonexistent">>      \* a directory that cannot be opened

\* `nulls` are the keys whose value is JSON null; path and client_version
\* hold the text between the quotes, escapes included.
Raw(k) ==
    [kind |-> k, cmd |-> "", keys |-> {}, nulls |-> {}, id |-> 0, path |-> <<>>,
     max |-> 0, skip |-> 0, client_version |-> <<>>]
Obj(tag, ks, i, p) ==
    [kind |-> "obj", cmd |-> tag, keys |-> ks, nulls |-> {}, id |-> i, path |-> p,
     max |-> 0, skip |-> 0, client_version |-> <<>>]

\* ---- JSON strings: a string is a sequence of characters ----------------
\* the characters serde_json writes as a two-character escape
Escaped == {"\"", "\\", "\n"}
EscapeCode(c) == IF c = "\n" THEN "n" ELSE c
EscapeChar(e) == IF e = "n" THEN "\n" ELSE e

\* serde_json's string writer
RECURSIVE Escape(_)
Escape(s) ==
    IF s = <<>> THEN <<>>
    ELSE (IF Head(s) \in Escaped THEN <<"\\", EscapeCode(Head(s))>> ELSE <<Head(s)>>)
         \o Escape(Tail(s))

\* serde_json's string reader, on text that WellEscaped accepts
RECURSIVE Unescape(_)
Unescape(t) ==
    IF t = <<>> THEN <<>>
    ELSE IF Head(t) = "\\" THEN <<EscapeChar(t[2])>> \o Unescape(SubSeq(t, 3, Len(t)))
    ELSE <<Head(t)>> \o Unescape(Tail(t))

\* the text between two quotes is a JSON string: no bare quote or line feed,
\* and every backslash starts an escape
RECURSIVE WellEscaped(_)
WellEscaped(t) ==
    IF t = <<>> THEN TRUE
    ELSE IF Head(t) = "\\"
         THEN Len(t) >= 2 /\ t[2] \in {"\"", "\\", "n"} /\ WellEscaped(SubSeq(t, 3, Len(t)))
    ELSE Head(t) \notin {"\"", "\n"} /\ WellEscaped(Tail(t))

Lines ==
    {Raw("empty"), Raw("spaces"), Raw("badutf8"), Raw("text")}
    \cup {Obj("hello", {"cmd", "id", "client_version"}, i, <<>>) : i \in Ids}
    \cup {Obj("sys_info", {"cmd", "id"}, i, <<>>) : i \in Ids}
    \cup {Obj("static_config", {"cmd", "id"}, 7, <<>>),
          Obj("services_list", {"cmd", "id"}, 1, <<>>)}
    \cup {Obj("list_dir", {"cmd", "id", "path"}, i, p) : i \in Ids, p \in {TildeDir, MissingDir}}
    \cup {Obj("containers_list", {"cmd", "id"}, 7, <<>>),   \* a tag Command does not have
          Obj("sys_info", {"cmd"}, 0, <<>>)}                 \* the id field is missing

\* a test for the empty line only, without the trim
IsBlank_NoTrim(l) == l.kind = "empty"

\* line.trim().is_empty()
IsBlank(l) == l.kind \in {"empty", "spaces"}

\* serde_json::from_str::<Command>(&line): the tag must name a variant and the
\* variant's required fields must be present and not null; max and skip are
\* Option fields, None when the key is missing or null.
FromStr(l) ==
    IF /\ l.kind = "obj"
       /\ "cmd" \in l.keys
       /\ \E v \in CommandVariants :
             SnakeCase(v) = l.cmd /\ RequiredKeys(v) \subseteq (l.keys \ l.nulls)
       /\ WellEscaped(l.path) /\ WellEscaped(l.client_version)
    THEN LET v == CHOOSE v \in CommandVariants : SnakeCase(v) = l.cmd
             has_max == "max" \in (l.keys \ l.nulls)
             has_skip == "skip" \in (l.keys \ l.nulls)
         IN Ok([variant |-> v, id |-> l.id, path |-> Unescape(l.path),
                has_max |-> has_max, max |-> IF has_max THEN l.max ELSE 0,
                has_skip |-> has_skip, skip |-> IF has_skip THEN l.skip ELSE 0,
                client_version |-> Unescape(l.client_version)])
    ELSE Err("invalid json")

\* ---- the remote filesystem ListDir reads -------------------------------
DefaultMax == 2000
MaxCeiling == 10000
BigCount == MaxCeiling + 1

\* Names are sequences of code points: "a" is <<97>>, "B" is <<66>>.
File(n, sz) == [name |-> n, is_dir |-> FALSE, has_size |-> TRUE, size |-> sz]
Dir(n) == [name |-> n, is_dir |-> TRUE, has_size |-> FALSE, size |-> 0]

\* further directories: one whose names differ in case only ("b", "A", "Z/",
\* "a", "y/" in OS order), an empty one, and one with more entries than the
\* ceiling of max (files "aaa", "aab", ... in OS order)
CaseDir == <<"srv", "case">>
EmptyDir == <<"srv", "empty">>
BigDir == <<"srv", "big">>
BigName(i) == <<97 + (i \div 676), 97 + ((i \div 26) % 26), 97 + (i % 26)>>

\* fs::read_dir(&dir) and the next_entry loop: the children in OS order, or the
\* io error of a directory that cannot be opened.
ReadDir(dir) ==
    IF dir = Home THEN Ok(<<File(<<97>>, 3), Dir(<<98>>), File(<<99>>, 5)>>)
    ELSE IF dir = CaseDir
    THEN Ok(<<File(<<98>>, 1), File(<<65>>, 2), Dir(<<90>>), File(<<97>>, 3), Dir(<<121>>)>>)
    ELSE IF dir = EmptyDir THEN Ok(<<>>)
    ELSE IF dir = BigDir THEN Ok([i \in 1..BigCount |-> File(BigName(i), i)])
    ELSE Err("read_dir")

\* expand_tilde: a leading "~/" becomes the home directory.
expand_tilde(path) ==
    IF Len(path) >= 1 /\ path[1] = "~" THEN Home \o Tail(path) ELSE path

\* char::to_lowercase on ASCII code points; str::to_lowercase maps it over the name.
LowerChar(c) == IF c >= 65 /\ c <= 90 THEN c + 32 ELSE c
to_lowercase(n) == [i \in 1..Len(n) |-> LowerChar(n[i])]

\* str::cmp: lexicographic on code points; "lt", "eq" or "gt".
RECURSIVE StrCmp(_, _)
StrCmp(a, b) ==
    IF a = <<>> /\ b = <<>> THEN "eq"
    ELSE IF a = <<>> THEN "lt"
    ELSE IF b = <<>> THEN "gt"
    ELSE IF Head(a) < Head(b) THEN "lt"
    ELSE IF Head(a) > Head(b) THEN "gt"
    ELSE StrCmp(Tail(a), Tail(b))

\* the comparator without the lower-casing of the names
EntryCmp_CaseSensitive(a, b) ==
    IF a.is_dir /\ ~b.is_dir THEN "lt"
    ELSE IF ~a.is_dir /\ b.is_dir THEN "gt"
    ELSE StrCmp(a.name, b.name)

\* the comparator of entries.sort_by: directories first, then lower-cased name.
EntryCmp(a, b) ==
    IF a.is_dir /\ ~b.is_dir THEN "lt"
    ELSE IF ~a.is_dir /\ b.is_dir THEN "gt"
    ELSE StrCmp(to_lowercase(a.name), to_lowercase(b.name))

\* insert e after every element that is not greater than it (sort_by is stable)
RECURSIVE InsertSorted(_, _)
InsertSorted(s, e) ==
    IF s = <<>> THEN <<e>>
    ELSE IF EntryCmp(e, Head(s)) = "lt" THEN <<e>> \o s
    ELSE <<Head(s)>> \o InsertSorted(Tail(s), e)

\* entries.sort_by: a stable sort; a sequence already in order stays as it is
RECURSIVE SortEntries(_)
SortEntries(s) ==
    IF \A i \in 1..(Len(s) - 1) : EntryCmp(s[i], s[i + 1]) # "gt" THEN s
    ELSE InsertSorted(SortEntries(SubSeq(s, 1, Len(s) - 1)), s[Len(s)])

Min(a, b) == IF a <= b THEN a ELSE b

\* a slice taken from the start of the listing whatever skip is
SkipTake_FromStart(s, skip, max) == SubSeq(s, 1, Min(Len(s), max))

\* entries.into_iter().skip(skip).take(max)
SkipTake(s, skip, max) == SubSeq(s, skip + 1, Min(Len(s), skip + max))

\* max without the ceiling
EffectiveMax_NoCeiling(has_max, max) == IF has_max THEN max ELSE DefaultMax

\* max.unwrap_or(2000).min(10_000)
EffectiveMax(has_max, max) == Min(IF has_max THEN max ELSE DefaultMax, MaxCeiling)

\* usize, scaled down from 64 bits so that its range can be enumerated; the
\* ceiling of 10_000 and the directories drawn stay well inside it
UsizeBits == 16
UsizeMax == 2^UsizeBits - 1

\* a + b on usize without overflow-checks
WrappingAdd(a, b) == (a + b) % (UsizeMax + 1)

\* a + b does not fit usize
Overflows(a, b) == a + b > UsizeMax

\* eof that is true only past the end
Eof_PastEnd(skip, max, len) == WrappingAdd(skip, max) > len

\* skip + max >= entries.len(), where the sum was computed
Eof(skip, max, len) == WrappingAdd(skip, max) >= len

\* `attempt to add with overflow`: the panic unwinds out of handle_command
\* and main, and the agent exits without writing a Response
Panic == [ok |-> FALSE, err |-> "panicked: attempt to add with overflow"]

Response(v, i, b) == [variant |-> v, id |-> i, body |-> b]

AdvertisedCapabilities ==
    <<"sys_info", "static_config", "services_list",
      "containers_list", "net_listeners", "processes_summary">>

\* The ListDir arm of handle_command.  `skip + max` is the one sum on usize:
\* with overflow-checks it panics when it does not fit, without it wraps.  The
\* lines drawn for the agent's loop carry no skip, so no Panic reaches RespondTo.
ListDirArm(cmd) ==
    LET max == EffectiveMax(cmd.has_max, cmd.max)
        skip == IF cmd.has_skip THEN cmd.skip ELSE 0
        rd == ReadDir(expand_tilde(cmd.path))
    IN IF ~rd.ok THEN Err(rd.err)
       ELSE IF overflow_checks /\ Overflows(skip, max) THEN Panic
       ELSE LET entries == SortEntries(rd.val)
                eof == Eof(skip, max, Len(entries))
            IN Ok(Response("ListDirOk", cmd.id,
                           [entries |-> SkipTake(entries, skip, max), eof |-> eof]))

\* ---- the local sources of sys_info, static_config and services_list ------
\* A file is "ok", "garbled" (readable, without the field looked for) or
\* "missing" (read_to_string fails); systemctl is "absent" (cannot be spawned),
\* "fails" (exits non-zero), "units_only" (list-unit-files fails, list-units
\* works) or "ok".
FileStates == {"ok", "garbled", "missing"}
Envs ==
    [kernel : {"ok", "missing"}, uptime : FileStates,
     hostname : {"ok", "missing"}, hostname_env : BOOLEAN,
     os_release : {"ok", "missing"}, cpuinfo : {"ok", "missing"}, meminfo : FileStates,
     systemctl : {"absent", "fails", "units_only", "ok"}]

HealthyEnv ==
    [kernel |-> "ok", uptime |-> "ok", hostname |-> "ok", hostname_env |-> TRUE,
     os_release |-> "ok", cpuinfo |-> "ok", meminfo |-> "ok", systemctl |-> "ok"]

\* sys_info with `?` on the kernel release in place of the match
sys_info_Strict(env) ==
    IF env.kernel = "missing" THEN Err("read /proc/sys/kernel/osrelease")
    ELSE Ok([os |-> "linux", kernel |-> "6.1.0", arch |-> "x86_64",
             uptime_secs |-> IF env.uptime = "ok" THEN 42 ELSE 0,
             hostname |-> IF env.hostname = "ok" THEN "host"
                          ELSE IF env.hostname_env THEN "envhost" ELSE "unknown"])

\* sys_info: every read is matched and has its fallback
sys_info(env) ==
    Ok([os |-> "linux",
        kernel |-> IF env.kernel = "ok" THEN "6.1.0" ELSE "unknown",
        arch |-> "x86_64",
        uptime_secs |-> IF env.uptime = "ok" THEN 42 ELSE 0,
        hostname |-> IF env.hostname = "ok" THEN "host"
                     ELSE IF env.hostname_env THEN "envhost" ELSE "unknown"])

\* static_config: os_release is an Option, the counts fall back to 0
static_config(env) ==
    Ok([has_os_release |-> env.os_release = "ok",
        os_release |-> IF env.os_release = "ok" THEN "ID=linux" ELSE "",
        cpu_count |-> IF env.cpuinfo = "ok" THEN 4 ELSE 0,
        mem_total_bytes |-> IF env.meminfo = "ok" THEN 8 * 1024 ELSE 0])

ServiceInfo(n, has_enabled, enabled) ==
    [name |-> n, active_state |-> "active", sub_state |-> "running",
     has_enabled |-> has_enabled, enabled |-> enabled]

\* services_list: both systemctl calls sit under `if let Ok(out)` and
\* `if out.status.success()`; without list-unit-files `enabled` is None
services_list(env) ==
    CASE env.systemctl = "ok" -> Ok(<<ServiceInfo("sshd.service", TRUE, TRUE)>>)
      [] env.systemctl = "units_only" -> Ok(<<ServiceInfo("sshd.service", FALSE, FALSE)>>)
      [] OTHER -> Ok(<<>>)

\* the Hello arm with the client's version echoed as the agent's
HelloArm_EchoClient(cmd) ==
    Ok(Response("HelloAck", cmd.id,
                [agent_version |-> cmd.client_version,
                 capabilities |-> AdvertisedCapabilities]))

\* the Hello arm: `client_version: _`
HelloArm(cmd) ==
    Ok(Response("HelloAck", cmd.id,
                [agent_version |-> "AGENT_VERSION",
                 capabilities |-> AdvertisedCapabilities]))

\* an arm of the form `let x = f().await?; Ok(Response::V { id, x })`
Try(r, v, id, field) ==
    IF r.ok THEN Ok(Response(v, id, [f \in {field} |-> r.val])) ELSE r

\* handle_command: Result<Response>
handle_command(cmd) ==
    CASE cmd.variant = "Hello" -> HelloArm(cmd)
      [] cmd.variant = "SysInfo" -> Try(sys_info(aenv), "SysInfoOk", cmd.id, "info")
      [] cmd.variant = "StaticConfig" ->
            Try(static_config(aenv), "StaticConfigOk", cmd.id, "config")
      [] cmd.variant = "ServicesList" ->
            Try(services_list(aenv), "ServicesListOk", cmd.id, "services")
      [] cmd.variant = "ListDir" -> ListDirArm(cmd)

\* serde_json::to_string(&Response): one JSON object, the variant under "type".
to_string(r) == [type |-> SnakeCase(r.variant), id |-> r.id, body |-> r.body]

\* RespondTo with the error id taken from the raw object instead of 0.
RespondTo_EchoRawId(l) ==
    LET parsed == FromStr(l)
        resp == IF parsed.ok THEN handle_command(parsed.val) ELSE Err(parsed.err)
    IN IF resp.ok THEN to_string(resp.val)
       ELSE to_string(Response("Error", l.id, [message |-> resp.err]))

\* main, lines 27-38: parse, dispatch, and turn any Err into Error{id: 0}.
RespondTo(l) ==
    LET parsed == FromStr(l)
        resp == IF parsed.ok THEN handle_command(parsed.val) ELSE Err(parsed.err)
    IN IF resp.ok THEN to_string(resp.val)
       ELSE to_string(Response("Error", 0, [message |-> resp.err]))

NoLine == Raw("none")
NoJson == [type |-> "none", id |-> 0, body |-> <<>>]

\* reader.next_line().await? and the blank-line `continue` (lines 23-26)
AgentReadLine ==
    /\ apc = "read"
    /\ IF pos = Len(stdin)
       THEN /\ apc' = "exit_ok"                  \* EOF: next_line is None
            /\ UNCHANGED <<pos, line>>
       ELSE LET l == stdin[pos + 1]
            IN /\ pos' = pos + 1
               /\ IF l.kind = "badutf8"
                  THEN apc' = "exit_err" /\ line' = line   \* io::Error through `?`
                  ELSE IF IsBlank(l)
                  THEN apc' = "read" /\ line' = line
                  ELSE apc' = "handle" /\ line' = l
    /\ UNCHANGED <<stdin, json_line, wbuf, stdout, answered>>

\* lines 27-38
AgentHandle ==
    /\ apc = "handle"
    /\ json_line' = RespondTo(line)
    /\ apc' = "write"
    /\ UNCHANGED <<stdin, pos, line, wbuf, stdout, answered>>

\* writer.write_all(json_line) and write_all("\n") (lines 39-40)
AgentWrite ==
    /\ apc = "write"
    /\ wbuf' = Append(wbuf, json_line)
    /\ apc' = "flush"
    /\ UNCHANGED <<stdin, pos, line, json_line, stdout, answered>>

\* a flush that leaves the buffered line in the BufWriter
Flushed_Nothing(buf) == <<>>

\* what writer.flush() moves to stdout
Flushed(buf) == buf

\* writer.flush() (line 41), then back to the loop head
AgentFlush ==
    /\ apc = "flush"
    /\ stdout' = stdout \o Flushed(wbuf)
    /\ answered' = answered \o [i \in 1..Len(Flushed(wbuf)) |-> pos]
    /\ wbuf' = SubSeq(wbuf, Len(Flushed(wbuf)) + 1, Len(wbuf))
    /\ apc' = "read"
    /\ UNCHANGED <<stdin, pos, line, json_line>>

RECURSIVE SeqsUpTo(_, _)
SeqsUpTo(S, n) ==
    IF n = 0 THEN {<<>>}
    ELSE LET shorter == SeqsUpTo(S, n - 1)
         IN shorter \cup {Append(s, x) : s \in {t \in shorter : Len(t) = n - 1}, x \in S}

AgentStart ==
    /\ pos = 0
    /\ apc = "read"
    /\ line = NoLine
    /\ json_line = NoJson
    /\ wbuf = <<>>
    /\ stdout = <<>>
    /\ answered = <<>>

AgentIdle == stdin = <<>> /\ AgentStart
ClientIdle == cpc = "idle" /\ sent = <<>> /\ reads = <<>> /\ hello_res = Err("none")
ProbeIdle ==
    /\ ppc = "idle" /\ dur = 0 /\ elapsed = 0
    /\ ssh = [phase |-> "none"] /\ probe_res = Err("none")

NoSteps == [probe |-> "none", mkdir |-> "none", rsync |-> "none", scp |-> "none", chmod |-> "none"]

\* the per-run state of the deploy workflow before Deploy is clicked
DeployRunStart ==
    /\ dpc = "idle" /\ dart = "" /\ cb_root = FALSE /\ d_root = FALSE
    /\ dsteps = NoSteps /\ dres = Err("none")
    /\ wlog = <<>> /\ inflight = {}
    /\ verify_res = Err("none") /\ dhello = Err("none")

DeployIdle ==
    /\ DeployRunStart
    /\ denv = [root |-> FALSE, version |-> ""]
    /\ prev = Err("none") /\ rsync_alive = FALSE

TermIdle ==
    /\ tpc = "idle" /\ child = "running" /\ stdin_open = TRUE
    /\ pending = 0 /\ waited = 0 /\ tlog = <<>>

FrameIdle ==
    /\ rstream = <<>> /\ rlf = TRUE /\ rpos = 0 /\ rres = <<>> /\ stdin_lf = TRUE

CmdIdle == aenv = HealthyEnv /\ hlog = <<>>

NoCall == [called |-> FALSE]

ListIdle ==
    /\ lpath = <<>> /\ lk = 0 /\ lpages = <<>> /\ lcall = NoCall /\ overflow_checks = FALSE

NoCommand ==
    [variant |-> "none", id |-> 0, path |-> <<>>, has_max |-> FALSE, max |-> 0,
     has_skip |-> FALSE, skip |-> 0, client_version |-> <<>>]

CodecIdle == ccmd = NoCommand /\ cpos = "start" /\ cline = Raw("none") /\ cdec = Err("none")

NoFile == [exists |-> FALSE, data |-> <<>>]
NoRecord == [exists |-> FALSE, last_seen_ok |-> FALSE, has_version |-> FALSE]

SaveIdle == spc = "idle" /\ sprev = NoRecord /\ snew = NoRecord /\ sfile = NoFile

NoPath == [base |-> "", version |-> "", file |-> ""]
Status(t, a) == [text |-> t, arg |-> a]

SelectIdle ==
    /\ wpc = "idle" /\ cfg_user = "none" /\ sel_path = NoPath
    /\ sel_check = Err("none") /\ status = Status("", "") /\ records = <<>>

PanelIdle == deploy_running = FALSE /\ tasks = <<>> /\ ignored = 0

CancelIdle ==
    /\ kpc = "idle" /\ kwire = <<>> /\ kpipe = <<>> /\ kline = <<>> /\ kcut = <<>>
    /\ kres = <<>>

PureIdle == FrameIdle /\ CmdIdle /\ ListIdle /\ CodecIdle /\ SaveIdle /\ SelectIdle /\ PanelIdle /\ CancelIdle

Others == DeployIdle /\ TermIdle /\ PureIdle

InitAgent == stdin \in SeqsUpTo(Lines, MaxLines) /\ AgentStart /\ ClientIdle /\ ProbeIdle /\ Others

NextAgent ==
    \/ AgentReadLine /\ UNCHANGED notAgent
    \/ AgentHandle /\ UNCHANGED notAgent
    \/ AgentWrite /\ UNCHANGED notAgent
    \/ AgentFlush /\ UNCHANGED notAgent

SpecAgent == InitAgent /\ [][NextAgent]_vars

\* ------------------------------------------------- callers of ListDir
ListPaths == {TildeDir, CaseDir, EmptyDir, BigDir, MissingDir}
PageSizes == {1, 2, 3, MaxCeiling, MaxCeiling + 1}
MaxArgs == {0, 1, 2, 5, DefaultMax, MaxCeiling, MaxCeiling + 1}
SkipArgs == {0, 1, 3, 5, MaxCeiling, MaxCeiling + 2}

ListDirCmd(path, has_max, max, has_skip, skip) ==
    [variant |-> "ListDir", id |-> 1, path |-> path,
     has_max |-> has_max, max |-> max, has_skip |-> has_skip, skip |-> skip]

RECURSIVE Returned(_)
Returned(pages) ==
    IF pages = <<>> THEN 0
    ELSE Len(pages[Len(pages)].val.body.entries) + Returned(SubSeq(pages, 1, Len(pages) - 1))

\* the next call of a paging run: max is the page size and skip is what the
\* pages before it returned; the run goes on until a page says eof or fails
ListPage ==
    /\ lk > 0
    /\ Len(lpages) < MaxPages
    /\ lpages # <<>> => lpages[Len(lpages)].ok /\ ~lpages[Len(lpages)].val.body.eof
    /\ lpages' = Append(lpages,
                        handle_command(ListDirCmd(lpath, TRUE, lk, TRUE, Returned(lpages))))
    /\ UNCHANGED <<lpath, lk, lcall, overflow_checks>>

\* one ListDir call with any max and skip, given or absent
ListOnce ==
    /\ lk = 0 /\ ~lcall.called
    /\ \E has_max \in BOOLEAN, has_skip \in BOOLEAN :
       \E max \in (IF has_max THEN MaxArgs ELSE {0}), skip \in (IF has_skip THEN SkipArgs ELSE {0}) :
          LET cmd == ListDirCmd(lpath, has_max, max, has_skip, skip)
          IN lcall' = [called |-> TRUE, cmd |-> cmd, res |-> handle_command(cmd)]
    /\ UNCHANGED <<lpath, lk, lpages, overflow_checks>>

\* a caller either pages through the directory (lk is its page size) or makes
\* one call (lk = 0)
InitListDir ==
    /\ lpath \in ListPaths /\ lk \in PageSizes \cup {0}
    /\ lpages = <<>> /\ lcall = NoCall /\ overflow_checks \in BOOLEAN
    /\ AgentIdle /\ ClientIdle /\ ProbeIdle /\ DeployIdle /\ TermIdle /\ FrameIdle /\ CmdIdle
    /\ CodecIdle
    /\ SaveIdle
    /\ SelectIdle
    /\ PanelIdle
    /\ CancelIdle

NextListDir ==
    \/ ListPage /\ UNCHANGED notList
    \/ ListOnce /\ UNCHANGED notList

SpecListDir == InitListDir /\ [][NextListDir]_vars

\* ---- ListDir with skip and max anywhere in usize -------------------------
WideArgs == {0, 1, 5, 6, MaxCeiling, UsizeMax - MaxCeiling, UsizeMax - MaxCeiling + 1,
             UsizeMax - 1, UsizeMax}

\* one ListDir call with skip and max drawn from the whole range
ListOnceWide ==
    /\ ~lcall.called
    /\ \E has_max \in BOOLEAN, has_skip \in BOOLEAN :
       \E max \in (IF has_max THEN WideArgs ELSE {0}), skip \in (IF has_skip THEN WideArgs ELSE {0}) :
          LET cmd == ListDirCmd(lpath, has_max, max, has_skip, skip)
          IN lcall' = [called |-> TRUE, cmd |-> cmd, res |-> handle_command(cmd)]
    /\ UNCHANGED <<lpath, lk, lpages, overflow_checks>>

InitOverflow ==
    /\ lpath \in {TildeDir, CaseDir, EmptyDir, MissingDir} /\ lk = 0
    /\ lpages = <<>> /\ lcall = NoCall /\ overflow_checks \in BOOLEAN
    /\ AgentIdle /\ ClientIdle /\ ProbeIdle /\ DeployIdle /\ TermIdle /\ FrameIdle /\ CmdIdle
    /\ CodecIdle /\ SaveIdle /\ SelectIdle /\ PanelIdle /\ CancelIdle

NextOverflow == ListOnceWide /\ UNCHANGED notList

SpecOverflow == InitOverflow /\ [][NextOverflow]_vars

\* ---- commands handled one at a time on a host in any condition ----------
ClientVersions == {<<"0.1.0">>, <<"9.9.9">>}

\* a parsed Command other than ListDir; client_version is read by Hello only
Cmd(v, i, cv) == [variant |-> v, id |-> i, client_version |-> cv]

PureCmds ==
    {Cmd("Hello", i, cv) : i \in Ids, cv \in ClientVersions}
    \cup {Cmd(v, i, <<>>) : v \in {"SysInfo", "StaticConfig", "ServicesList"}, i \in Ids}

\* main, lines 32-38: the line written for a Result<Response>
JsonLine(resp) ==
    IF resp.ok THEN to_string(resp.val)
    ELSE to_string(Response("Error", 0, [message |-> resp.err]))

\* one pass of main's loop body on a line that parsed to cmd
HandleOne ==
    /\ Len(hlog) < MaxHandled
    /\ \E cmd \in PureCmds :
          LET res == handle_command(cmd)
          IN hlog' = Append(hlog, [cmd |-> cmd, res |-> res, out |-> JsonLine(res)])
    /\ UNCHANGED aenv

InitCommands ==
    /\ aenv \in Envs /\ hlog = <<>>
    /\ AgentIdle /\ ClientIdle /\ ProbeIdle /\ DeployIdle /\ TermIdle /\ FrameIdle /\ ListIdle
    /\ CodecIdle
    /\ SaveIdle
    /\ SelectIdle
    /\ PanelIdle
    /\ CancelIdle

NextCommands == HandleOne /\ UNCHANGED notCmd

SpecCommands == InitCommands /\ [][NextCommands]_vars

\* ---- a Command written by serde_json::to_string and read back ----------
Command(v, i, p, has_max, max, has_skip, skip, cv) ==
    [variant |-> v, id |-> i, path |-> p, has_max |-> has_max, max |-> max,
     has_skip |-> has_skip, skip |-> skip, client_version |-> cv]

CodecIds == {0, 1, 7}
CodecNums == {0, 7}
CodecStrings == {<<>>, TildeDir, <<"a", "\"", "b">>, <<"\\", "n">>, <<"x", "\n">>}

\* the values of the Command enum: a field a variant does not have is not there
Commands ==
    {Command("Hello", i, <<>>, FALSE, 0, FALSE, 0, cv) :
        i \in CodecIds, cv \in ClientVersions \cup {<<"v", "\"", "\n">>}}
    \cup {Command(v, i, <<>>, FALSE, 0, FALSE, 0, <<>>) :
        v \in {"SysInfo", "StaticConfig", "ServicesList"}, i \in CodecIds}
    \cup {Command("ListDir", i, p, TRUE, m, TRUE, k, <<>>) :
        i \in CodecIds, p \in CodecStrings, m \in CodecNums, k \in CodecNums}
    \cup {Command("ListDir", i, p, FALSE, 0, TRUE, k, <<>>) :
        i \in CodecIds, p \in CodecStrings, k \in CodecNums}
    \cup {Command("ListDir", i, p, TRUE, m, FALSE, 0, <<>>) :
        i \in CodecIds, p \in CodecStrings, m \in CodecNums}
    \cup {Command("ListDir", i, p, FALSE, 0, FALSE, 0, <<>>) :
        i \in CodecIds, p \in CodecStrings}

\* the fields derive(Serialize) writes for a variant, after the tag
FieldsOf(v) ==
    CASE v = "Hello" -> {"id", "client_version"}
      [] v = "ListDir" -> {"id", "path", "max", "skip"}
      [] OTHER -> {"id"}

\* an encoder that writes 0 for an Option that is None
CommandLine_NoneAsZero(cmd) ==
    [kind |-> "obj", cmd |-> SnakeCase(cmd.variant),
     keys |-> {"cmd"} \cup FieldsOf(cmd.variant),
     nulls |-> {},
     id |-> cmd.id, path |-> Escape(cmd.path), max |-> cmd.max, skip |-> cmd.skip,
     client_version |-> Escape(cmd.client_version)]

\* serde_json::to_string(cmd): the tag "cmd" with the snake_case variant name,
\* then every field; None is written as null
CommandLine(cmd) ==
    [kind |-> "obj", cmd |-> SnakeCase(cmd.variant),
     keys |-> {"cmd"} \cup FieldsOf(cmd.variant),
     nulls |-> IF cmd.variant = "ListDir"
               THEN {k \in {"max", "skip"} : (k = "max" /\ ~cmd.has_max) \/ (k = "skip" /\ ~cmd.has_skip)}
               ELSE {},
     id |-> cmd.id, path |-> Escape(cmd.path), max |-> cmd.max, skip |-> cmd.skip,
     client_version |-> Escape(cmd.client_version)]

CodecEncode ==
    /\ cpos = "start"
    /\ cline' = CommandLine(ccmd)
    /\ cpos' = "encoded"
    /\ UNCHANGED <<ccmd, cdec>>

CodecDecode ==
    /\ cpos = "encoded"
    /\ cdec' = FromStr(cline)
    /\ cpos' = "decoded"
    /\ UNCHANGED <<ccmd, cline>>

InitCodec ==
    /\ ccmd \in Commands /\ cpos = "start" /\ cline = Raw("none") /\ cdec = Err("none")
    /\ AgentIdle /\ ClientIdle /\ ProbeIdle /\ DeployIdle /\ TermIdle
    /\ FrameIdle /\ CmdIdle /\ ListIdle
    /\ SaveIdle
    /\ SelectIdle
    /\ PanelIdle
    /\ CancelIdle

NextCodec ==
    \/ CodecEncode /\ UNCHANGED notCodec
    \/ CodecDecode /\ UNCHANGED notCodec

SpecCodec == InitCodec /\ [][NextCodec]_vars

\* ---- save_agent_state: the per-alias record written to <alias>.json ------
\* AgentDeploymentState, by the two fields the workflows set
StateRecords == [exists : {TRUE}, last_seen_ok : BOOLEAN, has_version : BOOLEAN]

Chunk(k, v) == [k |-> k, v |-> v]

\* serde_json::to_vec_pretty(state): the bytes, in the pieces a write may stop at
ToVec(rec) ==
    <<Chunk("{", ""),
      Chunk("last_deployed_version", IF rec.has_version THEN "0.1.0" ELSE "null"),
      Chunk("last_seen_ok", IF rec.last_seen_ok THEN "true" ELSE "false"),
      Chunk("}", "")>>

FileOf(rec) == IF rec.exists THEN [exists |-> TRUE, data |-> ToVec(rec)] ELSE NoFile

\* std::fs::create_dir_all(&dir)?
SaveCreateDir ==
    /\ spc = "start"
    /\ spc' \in {"dir", "returned"}
    /\ UNCHANGED <<sprev, snew, sfile>>

\* std::fs::write, first half: File::create opens the path with truncate
SaveCreate ==
    /\ spc = "dir"
    /\ \/ spc' = "writing" /\ sfile' = [exists |-> TRUE, data |-> <<>>]
       \/ spc' = "returned" /\ UNCHANGED sfile
    /\ UNCHANGED <<sprev, snew>>

\* std::fs::write, second half: write_all loops over write, each call taking
\* some of what is left; the call returns when nothing is left
SaveWrite ==
    /\ spc = "writing"
    /\ \E n \in 1..(Len(ToVec(snew)) - Len(sfile.data)) :
          /\ sfile' = [exists |-> TRUE,
                       data |-> SubSeq(ToVec(snew), 1, Len(sfile.data) + n)]
          /\ spc' = IF Len(sfile.data) + n = Len(ToVec(snew)) THEN "returned" ELSE "writing"
    /\ UNCHANGED <<sprev, snew>>

\* a write fails (the disk is full): write_all returns the error
SaveWriteFails ==
    /\ spc = "writing"
    /\ spc' = "returned"
    /\ UNCHANGED <<sprev, snew, sfile>>

\* the process dies inside save_agent_state
SaveCrash ==
    /\ spc \in {"start", "dir", "writing"}
    /\ spc' = "crashed"
    /\ UNCHANGED <<sprev, snew, sfile>>

InitSave ==
    /\ sprev \in StateRecords \cup {NoRecord} /\ snew \in StateRecords
    /\ spc = "start" /\ sfile = FileOf(sprev)
    /\ AgentIdle /\ ClientIdle /\ ProbeIdle /\ DeployIdle /\ TermIdle
    /\ FrameIdle /\ CmdIdle /\ ListIdle /\ CodecIdle
    /\ SelectIdle
    /\ PanelIdle
    /\ CancelIdle

NextSave ==
    \/ SaveCreateDir /\ UNCHANGED notSave
    \/ SaveCreate /\ UNCHANGED notSave
    \/ SaveWrite /\ UNCHANGED notSave
    \/ SaveWriteFails /\ UNCHANGED notSave
    \/ SaveCrash /\ UNCHANGED notSave

SpecSave == InitSave /\ [][NextSave]_vars

\* ================================================================ CLIENT
\* ---- what a read on the agent's stdout can meet --------------------------
\* The transport is the stdout of an ssh child: whatever runs at the remote path
\* writes it.  A read meets a line (a JSON object of some type, or text that is
\* no JSON), the end of the stream, or, under a timeout, no line in time.
RespIds == {0, 1, 2}
CapabilityLists == {<<>>, <<"static_config">>, AdvertisedCapabilities}

WireObj(t, i, b) == [kind |-> "obj", type |-> t, id |-> i, body |-> b]
WireText == [kind |-> "text", type |-> "", id |-> 0, body |-> <<>>]

WireLines ==
    {WireText}
    \cup {WireObj("hello_ack", i, [agent_version |-> "AGENT_VERSION", capabilities |-> c]) :
            i \in RespIds, c \in CapabilityLists}
    \cup {WireObj("error", i, [message |-> "m"]) : i \in RespIds}
    \cup {WireObj("sys_info_ok", i, [info |-> "info"]) : i \in RespIds}
    \cup {WireObj("list_dir_ok", 2, [entries |-> <<>>, eof |-> TRUE]),
          WireObj("bogus", 1, <<>>)}

Met(e, w) == [ev |-> e, wire |-> w]
Incoming == {Met("closed", WireText)} \cup {Met("line", w) : w \in WireLines}
TimedOut == Met("timeout", WireText)

ResponseVariants ==
    {"HelloAck", "SysInfoOk", "StaticConfigOk", "ServicesListOk", "ListDirOk", "Error"}

\* read_response_line that answers the end of the stream with a default Response
read_response_line_DefaultOnEof(m) ==
    IF m.ev = "closed" THEN Ok(Response("Error", 0, [message |-> ""]))
    ELSE IF /\ m.wire.kind = "obj"
            /\ \E v \in ResponseVariants : SnakeCase(v) = m.wire.type
    THEN Ok(Response(CHOOSE v \in ResponseVariants : SnakeCase(v) = m.wire.type,
                     m.wire.id, m.wire.body))
    ELSE Err("parse JSON response from agent")

\* AgentClient::read_response_line: n == 0 is an error; otherwise the line is
\* parsed as a Response (the tag under "type" must name a variant).
read_response_line(m) ==
    IF m.ev = "closed" THEN Err("agent stdout closed")
    ELSE IF /\ m.wire.kind = "obj"
            /\ \E v \in ResponseVariants : SnakeCase(v) = m.wire.type
    THEN Ok(Response(CHOOSE v \in ResponseVariants : SnakeCase(v) = m.wire.type,
                     m.wire.id, m.wire.body))
    ELSE Err("parse JSON response from agent")

\* the read of hello: tokio::time::timeout(dur, read_response_line()).await??
timed_read(m) == IF m.ev = "timeout" THEN Err("deadline has elapsed") ELSE read_response_line(m)

\* hello's match without the `if rid == id` guards
hello_match_NoIdGuard(resp, id) ==
    IF resp.variant = "HelloAck" THEN Ok(resp.body)
    ELSE IF resp.variant = "Error" THEN Err("agent hello error")
    ELSE Err("unexpected response to Hello")

\* the match at the end of AgentClient::hello
hello_match(resp, id) ==
    IF resp.variant = "HelloAck" /\ resp.id = id THEN Ok(resp.body)
    ELSE IF resp.variant = "Error" /\ resp.id = id THEN Err("agent hello error")
    ELSE Err("unexpected response to Hello")

HelloId == 1
SysInfoId == 2

\* run_agent: spawn ssh; on failure on_select skips the session
ClientRunAgent ==
    /\ cpc = "idle"
    /\ \E spawned \in BOOLEAN : cpc' = IF spawned THEN "spawned" ELSE "no_session"
    /\ UNCHANGED <<sent, reads, hello_res>>

\* hello, first half: send_command(Hello{id: 1}); a failed write returns through `?`
HelloSend ==
    /\ cpc = "spawned"
    /\ \E written \in BOOLEAN :
          IF written
          THEN /\ sent' = Append(sent, [variant |-> "Hello", id |-> HelloId])
               /\ cpc' = "handshaking"
               /\ hello_res' = hello_res
          ELSE /\ sent' = sent
               /\ cpc' = "hello_returned"
               /\ hello_res' = Err("write command to agent")
    /\ UNCHANGED reads

\* hello, second half: one timed read, then the match
HelloRead ==
    /\ cpc = "handshaking"
    /\ \E m \in Incoming \cup {TimedOut} :
          /\ reads' = Append(reads, m)
          /\ hello_res' = LET r == timed_read(m)
                          IN IF r.ok THEN hello_match(r.val, HelloId) ELSE r
    /\ cpc' = "hello_returned"
    /\ UNCHANGED sent

\* on_select after hello: on Ok, `let _ = client.send_command(SysInfo{id: 2})`;
\* on Err, straight to terminate
SelectSendSysInfo ==
    /\ cpc = "hello_returned"
    /\ IF hello_res.ok
       THEN /\ \E written \in BOOLEAN :
                  sent' = IF written
                          THEN Append(sent, [variant |-> "SysInfo", id |-> SysInfoId])
                          ELSE sent
            /\ cpc' = "await_sys_info"
       ELSE /\ sent' = sent
            /\ cpc' = "terminating"
    /\ UNCHANGED <<reads, hello_res>>

\* on_select: `if let Ok(resp) = client.read_response_line().await` (no timeout)
SelectReadSysInfo ==
    /\ cpc = "await_sys_info"
    /\ \E m \in Incoming : reads' = Append(reads, m)
    /\ cpc' = "terminating"
    /\ UNCHANGED <<sent, hello_res>>

\* client.terminate()
ClientTerminate ==
    /\ cpc = "terminating"
    /\ cpc' = "done"
    /\ UNCHANGED <<sent, reads, hello_res>>

InitClient == AgentIdle /\ ClientIdle /\ ProbeIdle /\ Others

NextClient ==
    \/ ClientRunAgent /\ UNCHANGED notClient
    \/ HelloSend /\ UNCHANGED notClient
    \/ HelloRead /\ UNCHANGED notClient
    \/ SelectSendSysInfo /\ UNCHANGED notClient
    \/ SelectReadSysInfo /\ UNCHANGED notClient
    \/ ClientTerminate /\ UNCHANGED notClient

SpecClient == InitClient /\ [][NextClient]_vars

\* ------------------------------------------------ the slarti-ssh binary
CliHelloId == 1
CliListDirId == 2

\* the match on serde_json::from_str::<Response>(&line) after Hello: every arm
\* prints and falls through to `break`; HelloAck is taken with any id (`id: _`)
cli_hello_print(m) ==
    LET r == read_response_line(m)
    IN IF m.ev = "closed" THEN Err("no line")
       ELSE IF ~r.ok THEN Err("Failed to parse HelloAck")
       ELSE IF r.val.variant = "HelloAck" THEN Ok(r.val.body)
       ELSE Err("Unexpected response to Hello")

\* Command::new("ssh")...spawn()?
CliSpawn ==
    /\ cpc = "idle"
    /\ \E spawned \in BOOLEAN : cpc' = IF spawned THEN "spawned" ELSE "no_session"
    /\ UNCHANGED <<sent, reads, hello_res>>

\* write_all and flush of Hello{id: 1}; an I/O error leaves main through `?`
CliSendHello ==
    /\ cpc = "spawned"
    /\ \E written \in BOOLEAN :
          IF written
          THEN /\ sent' = Append(sent, [variant |-> "Hello", id |-> CliHelloId])
               /\ cpc' = "handshaking"
          ELSE /\ sent' = sent
               /\ cpc' = "done"
    /\ UNCHANGED <<reads, hello_res>>

\* the first read loop: up to the first newline or the end of the stream; an
\* I/O error leaves main through `?`
CliReadHello ==
    /\ cpc = "handshaking"
    /\ \E failed \in BOOLEAN :
          IF failed
          THEN cpc' = "done" /\ UNCHANGED <<reads, hello_res>>
          ELSE /\ \E m \in Incoming :
                     /\ reads' = Append(reads, m)
                     /\ hello_res' = cli_hello_print(m)
               /\ cpc' = "hello_returned"
    /\ UNCHANGED sent

\* "Sample command after handshake": ListDir{id: 2} is written after the loop,
\* whatever the loop met
CliSendListDir ==
    /\ cpc = "hello_returned"
    /\ \E written \in BOOLEAN :
          IF written
          THEN /\ sent' = Append(sent, [variant |-> "ListDir", id |-> CliListDirId])
               /\ cpc' = "await_list_dir"
          ELSE /\ sent' = sent
               /\ cpc' = "done"
    /\ UNCHANGED <<reads, hello_res>>

\* the second read loop, then Ok(())
CliReadResponse ==
    /\ cpc = "await_list_dir"
    /\ \E failed \in BOOLEAN :
          IF failed
          THEN reads' = reads
          ELSE \E m \in Incoming : reads' = Append(reads, m)
    /\ cpc' = "done"
    /\ UNCHANGED <<sent, hello_res>>

InitCli == AgentIdle /\ ClientIdle /\ ProbeIdle /\ Others

NextCli ==
    \/ CliSpawn /\ UNCHANGED notClient
    \/ CliSendHello /\ UNCHANGED notClient
    \/ CliReadHello /\ UNCHANGED notClient
    \/ CliSendListDir /\ UNCHANGED notClient
    \/ CliReadResponse /\ UNCHANGED notClient

SpecCli == InitCli /\ [][NextCli]_vars

\* ---------------------------------------------------------- line framing
\* The lines a stream is made of here; its last line may lack the LF.
FrameWire ==
    {WireText,
     WireObj("hello_ack", 1, [agent_version |-> "AGENT_VERSION", capabilities |-> <<>>]),
     WireObj("sys_info_ok", 2, [info |-> "info"]),
     WireObj("error", 0, [message |-> "m"])}

FrameLines == {Raw("text"), Raw("empty"), Obj("sys_info", {"cmd", "id"}, 7, <<>>)}

\* one call of read_response_line on the stream: reader.read_line returns the
\* bytes up to and including the next LF, or up to the end of the stream when no
\* LF comes (n > 0 then), or n == 0 at the end of the stream
FrameRead ==
    /\ Len(rres) <= Len(rstream)
    /\ IF rpos = Len(rstream)
       THEN /\ rres' = Append(rres, [line |-> 0,
                                     res |-> read_response_line(Met("closed", WireText))])
            /\ rpos' = rpos
       ELSE /\ rres' = Append(rres, [line |-> rpos + 1,
                                     res |-> read_response_line(Met("line", rstream[rpos + 1]))])
            /\ rpos' = rpos + 1
    /\ UNCHANGED <<rstream, rlf, stdin_lf>>

InitFraming ==
    /\ stdin \in SeqsUpTo(FrameLines, MaxFrames) /\ AgentStart
    /\ stdin_lf \in BOOLEAN /\ (stdin = <<>> => stdin_lf)
    /\ rstream \in SeqsUpTo(FrameWire, MaxFrames)
    /\ rlf \in BOOLEAN /\ (rstream = <<>> => rlf)
    /\ rpos = 0 /\ rres = <<>>
    /\ ClientIdle /\ ProbeIdle /\ DeployIdle /\ TermIdle /\ CmdIdle /\ ListIdle /\ CodecIdle
    /\ SaveIdle
    /\ SelectIdle
    /\ PanelIdle
    /\ CancelIdle

NextFraming ==
    \/ FrameRead /\ UNCHANGED <<agentVars, notFrame>>
    \/ AgentReadLine /\ UNCHANGED notAgent
    \/ AgentHandle /\ UNCHANGED notAgent
    \/ AgentWrite /\ UNCHANGED notAgent
    \/ AgentFlush /\ UNCHANGED notAgent

SpecFraming == InitFraming /\ [][NextFraming]_vars

\* ================================================================= PROBE
\* ---- what the ssh child of check_agent can end with ----------------------
\* stderr is a sequence of words, stdout a sequence of lines (a line is its
\* trimmed text and whether it had surrounding blanks).  `cause` records why
\* the child ended as it did; check_agent never sees it.
Exit(c) == [has_code |-> TRUE, code |-> c]
Signalled == [has_code |-> FALSE, code |-> 0]
OutLine(t, padded) == [text |-> t, padded |-> padded]
Outcome(c, st, so, se) == [cause |-> c, status |-> st, stdout |-> so, stderr |-> se]

\* failures before a remote command runs: ssh itself exits 255
ConnectFailures ==
    {Outcome("auth", Exit(255), <<>>, <<"user@host:", "Permission", "denied", "(publickey).">>),
     Outcome("refused", Exit(255), <<>>,
             <<"ssh:", "connect", "to", "host", "port", "22:", "Connection", "refused">>),
     Outcome("resolve", Exit(255), <<>>, <<"ssh:", "Could", "not", "resolve", "hostname">>)}

ConnectTimedOut ==
    Outcome("connect_timeout", Exit(255), <<>>,
            <<"ssh:", "connect", "to", "host", "port", "22:", "Connection", "timed", "out">>)

\* what the remote shell or the agent's --version ends with
RemoteOutcomes ==
    {Outcome("ran", Exit(0), <<OutLine("1.2.3", FALSE)>>, <<>>),
     Outcome("ran", Exit(0), <<OutLine("", TRUE), OutLine("1.2.3", TRUE)>>, <<>>),
     Outcome("ran", Exit(0), <<>>, <<>>),
     Outcome("missing", Exit(127), <<>>, <<"sh:", "1:", "slarti-remote:", "not", "found">>),
     Outcome("missing", Exit(127), <<>>,
             <<"bash:", "slarti-remote:", "No", "such", "file", "or", "directory">>),
     Outcome("missing", Exit(127), <<>>, <<"sh:", "orden", "no", "encontrada">>),
     Outcome("not_executable", Exit(126), <<>>, <<"sh:", "slarti-remote:", "Permission", "denied">>),
     Outcome("not_executable", Exit(126), <<>>, <<"sh:", "Permiso", "denegado">>),
     Outcome("not_executable", Exit(126), <<>>,
             <<"cannot", "execute", "binary", "file:", "Exec", "format", "error">>),
     Outcome("agent_failed", Exit(101), <<>>, <<"thread", "main", "panicked">>),
     Outcome("killed", Signalled, <<>>, <<>>)}

NoOutcome == Outcome("none", Signalled, <<>>, <<>>)

\* ExitStatus::success()
Success(st) == st.has_code /\ st.code = 0

\* str::contains, on words
Contains(hay, needle) ==
    \E i \in 1..(Len(hay) - Len(needle) + 1) : SubSeq(hay, i, i + Len(needle) - 1) = needle

\* the stderr texts check_agent takes for "missing or not executable"
MissingSignatures ==
    {<<"No", "such", "file", "or", "directory">>,
     <<"not", "found">>,
     <<"Permission", "denied">>,
     <<"Exec", "format", "error">>,
     <<"cannot", "execute">>}

\* looks_missing_or_not_exec with the exit-code test left out
looks_missing_or_not_exec_StderrOnly(o) ==
    \E sig \in MissingSignatures : Contains(o.stderr, sig)

\* looks_missing_or_not_exec
looks_missing_or_not_exec(o) ==
    \/ o.status.has_code /\ o.status.code \in {126, 127}
    \/ \E sig \in MissingSignatures : Contains(o.stderr, sig)

AgentStatus(present, has_version, version, can_run, o) ==
    [present |-> present, has_version |-> has_version, version |-> version,
     can_run |-> can_run, stdout |-> o.stdout, stderr |-> o.stderr]

\* FirstNonEmpty without the non-empty test: the first line, blank or not
FirstNonEmpty_FirstLine(ls, i) == IF i > Len(ls) THEN 0 ELSE i

\* stdout.lines().map(trim).find(non-empty): the position of the first such line, or 0
RECURSIVE FirstNonEmpty(_, _)
FirstNonEmpty(ls, i) ==
    IF i > Len(ls) THEN 0
    ELSE IF ls[i].text # "" THEN i
    ELSE FirstNonEmpty(ls, i + 1)

\* check_agent from `if !out.status.success()` on: the classification of the output
Classify(o) ==
    IF ~Success(o.status)
    THEN IF looks_missing_or_not_exec(o)
         THEN Ok(AgentStatus(FALSE, FALSE, "", FALSE, o))
         ELSE Err("ssh check failed")
    ELSE LET n == FirstNonEmpty(o.stdout, 1)
         IN Ok(AgentStatus(n # 0, n # 0, IF n # 0 THEN o.stdout[n].text ELSE "", TRUE, o))

\* -o ConnectTimeout=<dur.as_secs()>
ConnectTimeout == dur

\* check_agent is called: ssh is spawned (or cannot be run at all)
ProbeCall ==
    /\ ppc = "idle"
    /\ \E d \in 1..MaxDur, spawned \in BOOLEAN :
          /\ dur' = d
          /\ IF spawned
             THEN /\ ssh' = [phase |-> "connecting", out |-> NoOutcome]
                  /\ ppc' = "awaiting"
                  /\ probe_res' = probe_res
             ELSE /\ ssh' = [phase |-> "not_run", out |-> NoOutcome]
                  /\ ppc' = "returned"
                  /\ probe_res' = Err("failed to run ssh")
    /\ elapsed' = 0

\* a second passes; ssh gives up connecting at ConnectTimeout, so no second
\* passes beyond it while ssh is still connecting
Tick ==
    /\ ppc = "awaiting"
    /\ ssh.phase \in {"connecting", "remote"}
    /\ elapsed < MaxClock
    /\ ssh.phase = "connecting" => elapsed < ConnectTimeout
    /\ elapsed' = elapsed + 1
    /\ UNCHANGED <<ppc, dur, ssh, probe_res>>

\* ssh fails before any remote command runs
SshConnectFails ==
    /\ ppc = "awaiting"
    /\ ssh.phase = "connecting"
    /\ \E o \in ConnectFailures : ssh' = [phase |-> "exited", out |-> o]
    /\ UNCHANGED <<ppc, dur, elapsed, probe_res>>

\* ssh's own ConnectTimeout expires
SshConnectTimesOut ==
    /\ ppc = "awaiting"
    /\ ssh.phase = "connecting"
    /\ elapsed >= ConnectTimeout
    /\ ssh' = [phase |-> "exited", out |-> ConnectTimedOut]
    /\ UNCHANGED <<ppc, dur, elapsed, probe_res>>

\* the connection is up and the remote command starts
SshConnected ==
    /\ ppc = "awaiting"
    /\ ssh.phase = "connecting"
    /\ ssh' = [phase |-> "remote", out |-> NoOutcome]
    /\ UNCHANGED <<ppc, dur, elapsed, probe_res>>

\* the remote command ends and ssh exits with its status
SshRemoteExits ==
    /\ ppc = "awaiting"
    /\ ssh.phase = "remote"
    /\ \E o \in RemoteOutcomes : ssh' = [phase |-> "exited", out |-> o]
    /\ UNCHANGED <<ppc, dur, elapsed, probe_res>>

\* cmd.output().await completes once the child has exited; check_agent classifies
ProbeReturn ==
    /\ ppc = "awaiting"
    /\ ssh.phase = "exited"
    /\ probe_res' = Classify(ssh.out)
    /\ ppc' = "returned"
    /\ UNCHANGED <<dur, elapsed, ssh>>

InitProbe == AgentIdle /\ ClientIdle /\ ProbeIdle /\ Others

NextProbe ==
    \/ ProbeCall /\ UNCHANGED notProbe
    \/ Tick /\ UNCHANGED notProbe
    \/ SshConnectFails /\ UNCHANGED notProbe
    \/ SshConnectTimesOut /\ UNCHANGED notProbe
    \/ SshConnected /\ UNCHANGED notProbe
    \/ SshRemoteExits /\ UNCHANGED notProbe
    \/ ProbeReturn /\ UNCHANGED notProbe

SpecProbe == InitProbe /\ [][NextProbe]_vars

\* ================================================================ DEPLOY
Versions == {"0.1.0", "0.2.0"}
Artifacts == {"slarti-remote", "slarti-remote.tar.gz"}
SystemBase == "/usr/local/lib/slarti/agent"
HomeBase == "$HOME/.local/share/slarti/agent"
BinaryName == "slarti-remote"

\* how the ssh child of remote_user_is_root can end
ProbeEnds == {"spawn_error", "nonzero", "zero"}

\* how a step run under tokio::time::timeout can end
StepEnds == {"ok", "fail", "timeout", "spawn_error"}

\* remote_user_is_root: a child that cannot be run is an Err, a non-zero exit (an
\* ssh that could not connect within ConnectTimeout exits 255) is Ok(false), and
\* a zero exit is Ok(stdout.trim() == "0"), true for root only
remote_user_is_root(o, root) ==
    IF o = "spawn_error" THEN Err("failed to run ssh for id -u")
    ELSE IF o = "nonzero" THEN Ok(FALSE)
    ELSE Ok(root)

\* .unwrap_or(false)
unwrap_or_false(r) == IF r.ok THEN r.val ELSE FALSE

\* RemotePath that keeps the local artifact's file name
RemotePath_ArtifactName(is_root, version, local_artifact) ==
    [base |-> IF is_root THEN SystemBase ELSE HomeBase, version |-> version,
     file |-> local_artifact]

\* remote_dir and remote_path: format!("{base}/{version}") and "/slarti-remote";
\* local_artifact is in scope and is not used
RemotePath(is_root, version, local_artifact) ==
    [base |-> IF is_root THEN SystemBase ELSE HomeBase, version |-> version,
     file |-> BinaryName]

\* Ok(Ok(status)) with status.success()
StepOk(o) == o = "ok"

\* MkdirPassed that lets a failed mkdir through
MkdirPassed_Always(o) == TRUE

\* the mkdir step lets deploy_agent go on: no timeout, no spawn error, success
MkdirPassed(o) == StepOk(o)

\* NeedsFallback that runs scp in every case
NeedsFallback_Always(uploaded) == TRUE

\* `if !uploaded` before scp
NeedsFallback(uploaded) == ~uploaded

\* `if !used_rsync` before chmod
NeedsChmod(used_rsync) == ~used_rsync

DeployResult(path, used_rsync) == [remote_path |-> path, used_rsync |-> used_rsync]

\* deploy_agent returns: nothing of it is in flight any more
DeployReturns(r) ==
    /\ dres' = r
    /\ dpc' = "d_returned"
    /\ inflight' = inflight \ {"deploy_agent"}

\* ProceedToVerify that goes on after a failed deploy
ProceedToVerify_Always(r) == TRUE

\* the callback's `match deploy_agent(..).await { Ok(_res) => verify, Err(e) => report }`
ProceedToVerify(r) == r.ok

\* the callback's `Ok(status) if status.present && status.can_run`
Runnable(r) == r.ok /\ r.val.present /\ r.val.can_run

\* every Result check_agent can return
CheckResults ==
    {Classify(o) : o \in RemoteOutcomes \cup ConnectFailures \cup {ConnectTimedOut}}
    \cup {Err("failed to run ssh")}

\* every Result hello can return
HelloOutcomes ==
    {LET r == timed_read(m) IN IF r.ok THEN hello_match(r.val, HelloId) ELSE r :
        m \in Incoming \cup {TimedOut}}
    \cup {Err("write command to agent")}

\* Deploy is clicked; the callback reads the selected alias
WfClick ==
    /\ dpc = "idle"
    /\ \E has_target \in BOOLEAN : dpc' = IF has_target THEN "cb_probe" ELSE "end"
    /\ UNCHANGED <<denv, dart, cb_root, d_root, dsteps, dres, prev, rsync_alive, wlog,
                   inflight, verify_res, dhello>>

\* the callback's own remote_user_is_root(..).await.unwrap_or(false)
WfProbe ==
    /\ dpc = "cb_probe"
    /\ \E o \in ProbeEnds : cb_root' = unwrap_or_false(remote_user_is_root(o, denv.root))
    /\ dpc' = "artifact"
    /\ UNCHANGED <<denv, dart, d_root, dsteps, dres, prev, rsync_alive, wlog,
                   inflight, verify_res, dhello>>

\* the callback resolves the local artifact and, if there is one, calls deploy_agent
WfArtifact ==
    /\ dpc = "artifact"
    /\ \E exists \in BOOLEAN :
          IF exists
          THEN /\ \E a \in Artifacts : dart' = a
               /\ dpc' = "d_probe"
               /\ wlog' = Append(wlog, "deploy_agent")
               /\ inflight' = inflight \cup {"deploy_agent"}
          ELSE /\ dpc' = "end"
               /\ UNCHANGED <<dart, wlog, inflight>>
    /\ UNCHANGED <<denv, cb_root, d_root, dsteps, dres, prev, rsync_alive, verify_res, dhello>>

\* deploy_agent: is_root = remote_user_is_root(..).await.unwrap_or(false)
DeployProbe ==
    /\ dpc = "d_probe"
    /\ \E o \in ProbeEnds :
          /\ d_root' = unwrap_or_false(remote_user_is_root(o, denv.root))
          /\ dsteps' = [dsteps EXCEPT !.probe = o]
    /\ dpc' = "d_mkdir"
    /\ UNCHANGED <<denv, dart, cb_root, dres, prev, rsync_alive, wlog, inflight,
                   verify_res, dhello>>

\* deploy_agent: ssh mkdir -p under the timeout
DeployMkdir ==
    /\ dpc = "d_mkdir"
    /\ \E o \in StepEnds :
          /\ dsteps' = [dsteps EXCEPT !.mkdir = o]
          /\ IF MkdirPassed(o)
             THEN dpc' = "d_rsync" /\ UNCHANGED <<dres, inflight>>
             ELSE DeployReturns(Err("remote mkdir failed"))
    /\ UNCHANGED <<denv, dart, cb_root, d_root, prev, rsync_alive, wlog, verify_res, dhello>>

\* deploy_agent: rsync under the timeout; a timed-out rsync child is not killed
DeployRsync ==
    /\ dpc = "d_rsync"
    /\ \E o \in StepEnds :
          /\ dsteps' = [dsteps EXCEPT !.rsync = o]
          /\ rsync_alive' = (rsync_alive \/ o = "timeout")
          /\ dpc' = IF NeedsFallback(StepOk(o)) THEN "d_scp" ELSE "d_uploaded"
    /\ UNCHANGED <<denv, dart, cb_root, d_root, dres, prev, wlog, inflight, verify_res, dhello>>

\* deploy_agent: scp to the same destination
DeployScp ==
    /\ dpc = "d_scp"
    /\ \E o \in StepEnds : dsteps' = [dsteps EXCEPT !.scp = o]
    /\ dpc' = "d_uploaded"
    /\ UNCHANGED <<denv, dart, cb_root, d_root, dres, prev, rsync_alive, wlog, inflight,
                   verify_res, dhello>>

\* deploy_agent: `if !uploaded { return Err }`, then chmod only after scp
DeployUploaded ==
    /\ dpc = "d_uploaded"
    /\ LET used_rsync == StepOk(dsteps.rsync)
           uploaded == used_rsync \/ StepOk(dsteps.scp)
       IN IF ~uploaded
          THEN DeployReturns(Err("failed to upload agent"))
          ELSE IF NeedsChmod(used_rsync)
          THEN dpc' = "d_chmod" /\ UNCHANGED <<dres, inflight>>
          ELSE DeployReturns(Ok(DeployResult(RemotePath(d_root, denv.version, dart), used_rsync)))
    /\ UNCHANGED <<denv, dart, cb_root, d_root, dsteps, prev, rsync_alive, wlog,
                   verify_res, dhello>>

\* deploy_agent: ssh chmod 755 under the timeout, then Ok(DeployResult)
DeployChmod ==
    /\ dpc = "d_chmod"
    /\ \E o \in StepEnds :
          /\ dsteps' = [dsteps EXCEPT !.chmod = o]
          /\ IF StepOk(o)
                THEN DeployReturns(Ok(DeployResult(RemotePath(d_root, denv.version, dart),
                                                StepOk(dsteps.rsync))))
             ELSE DeployReturns(Err("remote chmod failed"))
    /\ UNCHANGED <<denv, dart, cb_root, d_root, prev, rsync_alive, wlog, verify_res, dhello>>

\* the callback matches deploy_agent's Result and, on Ok, calls check_agent
WfAfterDeploy ==
    /\ dpc = "d_returned"
    /\ IF ProceedToVerify(dres)
       THEN /\ dpc' = "verifying"
            /\ wlog' = Append(wlog, "check_agent")
            /\ inflight' = inflight \cup {"check_agent"}
       ELSE /\ dpc' = "end"
            /\ UNCHANGED <<wlog, inflight>>
    /\ UNCHANGED <<denv, dart, cb_root, d_root, dsteps, dres, prev, rsync_alive,
                   verify_res, dhello>>

\* check_agent returns to the callback
WfCheckReturns ==
    /\ dpc = "verifying"
    /\ \E r \in CheckResults :
          /\ verify_res' = r
          /\ dpc' = IF Runnable(r) THEN "spawn" ELSE "end"
    /\ inflight' = inflight \ {"check_agent"}
    /\ UNCHANGED <<denv, dart, cb_root, d_root, dsteps, dres, prev, rsync_alive, wlog, dhello>>

\* the callback's `if let Ok(mut client) = run_agent(..).await`
WfRunAgent ==
    /\ dpc = "spawn"
    /\ wlog' = Append(wlog, "run_agent")
    /\ \E spawned \in BOOLEAN : dpc' = IF spawned THEN "hello" ELSE "end"
    /\ UNCHANGED <<denv, dart, cb_root, d_root, dsteps, dres, prev, rsync_alive, inflight,
                   verify_res, dhello>>

\* the callback calls client.hello(..)
WfHelloCall ==
    /\ dpc = "hello"
    /\ wlog' = Append(wlog, "hello")
    /\ inflight' = inflight \cup {"hello"}
    /\ dpc' = "in_hello"
    /\ UNCHANGED <<denv, dart, cb_root, d_root, dsteps, dres, prev, rsync_alive,
                   verify_res, dhello>>

\* hello returns to the callback
WfHelloReturns ==
    /\ dpc = "in_hello"
    /\ \E r \in HelloOutcomes : dhello' = r
    /\ inflight' = inflight \ {"hello"}
    /\ dpc' = "terminate"
    /\ UNCHANGED <<denv, dart, cb_root, d_root, dsteps, dres, prev, rsync_alive, wlog,
                   verify_res>>

\* the callback's `let _ = client.terminate().await`
WfTerminate ==
    /\ dpc = "terminate"
    /\ wlog' = Append(wlog, "terminate")
    /\ dpc' = "end"
    /\ UNCHANGED <<denv, dart, cb_root, d_root, dsteps, dres, prev, rsync_alive, inflight,
                   verify_res, dhello>>

\* the workflow is over; Deploy can be clicked again for the same target and version
WfRestart ==
    /\ dpc = "end"
    /\ prev' = IF dsteps.probe # "none" THEN dres ELSE prev
    /\ dpc' = "idle" /\ dart' = "" /\ cb_root' = FALSE /\ d_root' = FALSE
    /\ dsteps' = NoSteps /\ dres' = Err("none")
    /\ wlog' = <<>> /\ inflight' = {}
    /\ verify_res' = Err("none") /\ dhello' = Err("none")
    /\ UNCHANGED <<denv, rsync_alive>>

\* an rsync child left running by its timeout ends by itself
RsyncOrphanExits ==
    /\ rsync_alive
    /\ rsync_alive' = FALSE
    /\ UNCHANGED <<dpc, denv, dart, cb_root, d_root, dsteps, dres, prev, wlog, inflight,
                   verify_res, dhello>>

InitDeploy ==
    /\ AgentIdle /\ ClientIdle /\ ProbeIdle /\ TermIdle /\ PureIdle
    /\ DeployRunStart
    /\ denv \in [root : BOOLEAN, version : Versions]
    /\ prev = Err("none") /\ rsync_alive = FALSE

NextDeploy ==
    \/ WfClick /\ UNCHANGED notDeploy
    \/ WfProbe /\ UNCHANGED notDeploy
    \/ WfArtifact /\ UNCHANGED notDeploy
    \/ DeployProbe /\ UNCHANGED notDeploy
    \/ DeployMkdir /\ UNCHANGED notDeploy
    \/ DeployRsync /\ UNCHANGED notDeploy
    \/ DeployScp /\ UNCHANGED notDeploy
    \/ DeployUploaded /\ UNCHANGED notDeploy
    \/ DeployChmod /\ UNCHANGED notDeploy
    \/ WfAfterDeploy /\ UNCHANGED notDeploy
    \/ WfCheckReturns /\ UNCHANGED notDeploy
    \/ WfRunAgent /\ UNCHANGED notDeploy
    \/ WfHelloCall /\ UNCHANGED notDeploy
    \/ WfHelloReturns /\ UNCHANGED notDeploy
    \/ WfTerminate /\ UNCHANGED notDeploy
    \/ WfRestart /\ UNCHANGED notDeploy
    \/ RsyncOrphanExits /\ UNCHANGED notDeploy

SpecDeploy == InitDeploy /\ [][NextDeploy]_vars

\* ============================================================= TERMINATE
\* Duration::from_millis(500)
TerminateWait == 500

\* the clock of the wait advances in two steps
WaitTick == TerminateWait \div 2

\* WaitElapsed that gives up the wait at once
WaitElapsed_AtOnce(w) == TRUE

\* tokio::time::timeout(Duration::from_millis(500), ..) fires
WaitElapsed(w) == w >= TerminateWait

\* `let _ = self.writer.flush().await`: the result is discarded
TermFlush ==
    /\ tpc = "idle"
    /\ \E ok \in BOOLEAN : pending' = IF ok THEN 0 ELSE pending
    /\ tlog' = Append(tlog, "flush")
    /\ tpc' = "shutdown"
    /\ UNCHANGED <<child, stdin_open, waited>>

\* `let _ = AsyncWriteExt::shutdown(&mut self.writer).await`: the result is
\* discarded, and whether the pipe is closed by it is left to the runtime
TermShutdown ==
    /\ tpc = "shutdown"
    /\ \E closed \in BOOLEAN : stdin_open' = ~closed
    /\ tlog' = Append(tlog, "shutdown")
    /\ tpc' = "waiting"
    /\ UNCHANGED <<child, pending, waited>>

\* time passes while child.wait() is pending
TermWaitTick ==
    /\ tpc = "waiting" /\ child = "running"
    /\ ~WaitElapsed(waited)
    /\ waited' = waited + WaitTick
    /\ UNCHANGED <<tpc, child, stdin_open, pending, tlog>>

\* the ssh child ends by itself
ChildExits ==
    /\ tpc # "returned" /\ child = "running"
    /\ child' = "exited"
    /\ UNCHANGED <<tpc, stdin_open, pending, waited, tlog>>

\* child.wait() resolves before the timeout: `.is_ok()` and Ok(())
TermWaitDone ==
    /\ tpc = "waiting" /\ child = "exited"
    /\ tlog' = Append(tlog, "wait_ok")
    /\ tpc' = "returned"
    /\ UNCHANGED <<child, stdin_open, pending, waited>>

\* the timeout fires with the child still running: the else branch
TermWaitTimeout ==
    /\ tpc = "waiting" /\ child = "running"
    /\ WaitElapsed(waited)
    /\ tlog' = Append(tlog, "timeout")
    /\ tpc' = "killing"
    /\ UNCHANGED <<child, stdin_open, pending, waited>>

\* `let _ = self.child.kill().await`: SIGKILL and wait, then Ok(())
TermKill ==
    /\ tpc = "killing"
    /\ child' = IF child = "running" THEN "killed" ELSE child
    /\ tlog' = Append(tlog, "kill")
    /\ tpc' = "returned"
    /\ UNCHANGED <<stdin_open, pending, waited>>

\* terminate is called on a session whose child runs or has already ended, with
\* some bytes possibly left in the BufWriter
InitTerminate ==
    /\ AgentIdle /\ ClientIdle /\ ProbeIdle /\ DeployIdle /\ PureIdle
    /\ tpc = "idle"
    /\ child \in {"running", "exited"}
    /\ stdin_open = TRUE
    /\ pending \in 0..MaxLines
    /\ waited = 0
    /\ tlog = <<>>

NextTerminate ==
    \/ TermFlush /\ UNCHANGED notTerm
    \/ TermShutdown /\ UNCHANGED notTerm
    \/ TermWaitTick /\ UNCHANGED notTerm
    \/ ChildExits /\ UNCHANGED notTerm
    \/ TermWaitDone /\ UNCHANGED notTerm
    \/ TermWaitTimeout /\ UNCHANGED notTerm
    \/ TermKill /\ UNCHANGED notTerm

SpecTerminate == InitTerminate /\ [][NextTerminate]_vars

\* ------------------------------------------- the lifetime of a session
\* Drop for AgentClient that does nothing
Drop_Nothing(c) == c

\* Drop for AgentClient: try_wait; a child that has not exited gets start_kill
Drop(c) == IF c = "running" THEN "killed" ELSE c

LiveSession == {"spawned", "handshaking", "hello_returned", "await_sys_info", "terminating"}

\* run_agent: cmd.spawn(); on Ok the AgentClient owns the running child
SessRunAgent ==
    /\ cpc = "idle"
    /\ \E spawned \in BOOLEAN :
          IF spawned
          THEN cpc' = "spawned" /\ child' = "running" /\ stdin_open' = TRUE
          ELSE cpc' = "no_session" /\ UNCHANGED <<child, stdin_open>>
    /\ UNCHANGED <<sent, reads, hello_res, tpc, pending, waited, tlog>>

\* the deploy callback after hello: Ok or Err, terminate comes next
SessDeployAfterHello ==
    /\ cpc = "hello_returned"
    /\ cpc' = "terminating"
    /\ UNCHANGED <<sent, reads, hello_res, termVars>>

\* terminate returns: it took the session by value, so the session is dropped
SessTerminateReturns ==
    /\ cpc = "terminating" /\ tpc = "returned"
    /\ child' = Drop(child)
    /\ cpc' = "done"
    /\ UNCHANGED <<sent, reads, hello_res, tpc, stdin_open, pending, waited, tlog>>

\* the session is dropped before terminate has returned: the workflow's future
\* is dropped or unwinds at one of its await points
SessDropped ==
    /\ cpc \in LiveSession /\ tpc # "returned"
    /\ child' = Drop(child)
    /\ cpc' = "dropped"
    /\ UNCHANGED <<sent, reads, hello_res, tpc, stdin_open, pending, waited, tlog>>

InitSession ==
    /\ AgentIdle /\ ClientIdle /\ ProbeIdle /\ DeployIdle /\ PureIdle
    /\ tpc = "idle" /\ child = "none" /\ stdin_open = FALSE
    /\ pending = 0 /\ waited = 0 /\ tlog = <<>>

NextSession ==
    \/ SessRunAgent /\ UNCHANGED notSession
    \/ HelloSend /\ UNCHANGED <<termVars, notSession>>
    \/ HelloRead /\ UNCHANGED <<termVars, notSession>>
    \/ SelectSendSysInfo /\ UNCHANGED <<termVars, notSession>>
    \/ SelectReadSysInfo /\ UNCHANGED <<termVars, notSession>>
    \/ SessDeployAfterHello /\ UNCHANGED notSession
    \/ cpc = "terminating" /\ TermFlush /\ UNCHANGED <<clientVars, notSession>>
    \/ cpc = "terminating" /\ TermShutdown /\ UNCHANGED <<clientVars, notSession>>
    \/ cpc = "terminating" /\ TermWaitTick /\ UNCHANGED <<clientVars, notSession>>
    \/ cpc = "terminating" /\ TermWaitDone /\ UNCHANGED <<clientVars, notSession>>
    \/ cpc = "terminating" /\ TermWaitTimeout /\ UNCHANGED <<clientVars, notSession>>
    \/ cpc = "terminating" /\ TermKill /\ UNCHANGED <<clientVars, notSession>>
    \/ cpc \in LiveSession /\ ChildExits /\ UNCHANGED <<clientVars, notSession>>
    \/ SessTerminateReturns /\ UNCHANGED notSession
    \/ SessDropped /\ UNCHANGED notSession

SpecSession == InitSession /\ [][NextSession]_vars

\* ------------------------------------------ the host-selection workflow
ConfigUsers == {"none", "root", "alice"}

\* effective_user_for_alias(..).as_deref() == Some("root")
user_is_root(user) == user = "root"

NotPresentStatus == Status("not present or incompatible", "")
ErrorStatus(e) == Status("error", e)

\* the record with a version kept from the handshake whatever its Result
SelectRecord_VersionAlways(h) ==
    [exists |-> TRUE, last_seen_ok |-> h.ok, has_version |-> TRUE]

\* the AgentDeploymentState on_select has built when it saves it: the
\* initial record, with version and last_seen_ok set in hello's Ok arm only
SelectRecord(h) ==
    [exists |-> TRUE, last_seen_ok |-> h.ok, has_version |-> h.ok]

\* status_text, computed after save_agent_state
StatusText(rec, h) ==
    IF rec.last_seen_ok
    THEN IF rec.has_version THEN Status("connected v", h.val.agent_version)
         ELSE Status("connected", "")
    ELSE NotPresentStatus

\* on_select is called: the panel shows "checking" and the task computes
\* remote_path from the configured user
SelClick ==
    /\ wpc = "idle"
    /\ status' = Status("checking", "")
    /\ sel_path' = RemotePath(user_is_root(cfg_user), denv.version, BinaryName)
    /\ wpc' = "checking"
    /\ UNCHANGED <<cfg_user, sel_check, records>>

\* the match on check_agent(..).await: present and can_run goes on to the
\* session, any other Ok does nothing, Err sets the status to the error
SelCheckReturns ==
    /\ wpc = "checking"
    /\ \E r \in CheckResults :
          /\ sel_check' = r
          /\ wpc' = IF Runnable(r) THEN "session" ELSE "finish"
          /\ status' = IF r.ok THEN status ELSE ErrorStatus(r.err)
    /\ UNCHANGED <<cfg_user, sel_path, records>>

\* after the match: save_agent_state(&state), its Result dropped, then the
\* status is set to status_text
SelFinish ==
    /\ \/ wpc = "finish"
       \/ wpc = "session" /\ cpc \in {"done", "no_session"}
    /\ LET rec == SelectRecord(hello_res)
       IN /\ \E saved \in BOOLEAN : records' = IF saved THEN Append(records, rec) ELSE records
          /\ status' = StatusText(rec, hello_res)
    /\ wpc' = "done"
    /\ UNCHANGED <<cfg_user, sel_path, sel_check>>

InitSelect ==
    /\ AgentIdle /\ ClientIdle /\ ProbeIdle /\ TermIdle
    /\ FrameIdle /\ CmdIdle /\ ListIdle /\ CodecIdle /\ SaveIdle
    /\ DeployRunStart /\ prev = Err("none") /\ rsync_alive = FALSE
    /\ denv \in [root : BOOLEAN, version : Versions]
    /\ cfg_user \in ConfigUsers
    /\ cfg_user = "root" => denv.root
    /\ cfg_user = "alice" => ~denv.root
    /\ wpc = "idle" /\ sel_path = NoPath /\ sel_check = Err("none")
    /\ status = Status("", "") /\ records = <<>>
    /\ PanelIdle
    /\ CancelIdle

NextSelect ==
    \/ SelClick /\ UNCHANGED notSelect
    \/ SelCheckReturns /\ UNCHANGED notSelect
    \/ wpc = "session" /\ ClientRunAgent /\ UNCHANGED notClient
    \/ wpc = "session" /\ HelloSend /\ UNCHANGED notClient
    \/ wpc = "session" /\ HelloRead /\ UNCHANGED notClient
    \/ wpc = "session" /\ SelectSendSysInfo /\ UNCHANGED notClient
    \/ wpc = "session" /\ SelectReadSysInfo /\ UNCHANGED notClient
    \/ wpc = "session" /\ ClientTerminate /\ UNCHANGED notClient
    \/ SelFinish /\ UNCHANGED notSelect

SpecSelect == InitSelect /\ [][NextSelect]_vars

\* ------------------------------------------------- hello's timed read
\* a piece of response line l; the last piece ends with the line feed
Piece(l, j, n) == [line |-> l, part |-> j, lf |-> j = n]

\* response line l cut into n pieces
LinePieces(l, n) == [j \in 1..n |-> Piece(l, j, n)]

\* serde_json::from_str(line.trim()): the text is a Response when it is all
\* the pieces of one line, in order
ParseLine(text) ==
    IF /\ text # <<>>
       /\ \A j \in 1..Len(text) : text[j].line = text[1].line /\ text[j].part = j
       /\ text[Len(text)].lf
    THEN Ok(text[1].line)
    ELSE Err("parse JSON response from agent")

\* what read_until takes from the pieces at hand: up to the first line feed
RECURSIVE UpToLf(_)
UpToLf(ps) ==
    IF ps = <<>> THEN <<>>
    ELSE IF Head(ps).lf THEN <<Head(ps)>>
    ELSE <<Head(ps)>> \o UpToLf(Tail(ps))

\* more of the agent's output reaches the client
KArrive ==
    /\ kwire # <<>>
    /\ kpipe' = Append(kpipe, Head(kwire))
    /\ kwire' = Tail(kwire)
    /\ UNCHANGED <<kpc, kline, kcut, kres>>

\* hello calls tokio::time::timeout(dur, self.read_response_line())
KHelloRead ==
    /\ kpc = "idle"
    /\ kpc' = "reading"
    /\ UNCHANGED <<kwire, kpipe, kline, kcut, kres>>

\* a poll of read_line with data at hand: the bytes up to the line feed are
\* consumed from the BufReader into `line`; with the line feed the read is
\* complete and the line is parsed
KPoll ==
    /\ kpc \in {"reading", "reading_again"}
    /\ kpipe # <<>>
    /\ LET took == UpToLf(kpipe)
           text == kline \o took
       IN /\ kpipe' = SubSeq(kpipe, Len(took) + 1, Len(kpipe))
          /\ IF took[Len(took)].lf
             THEN /\ kres' = Append(kres, ParseLine(text))
                  /\ kline' = <<>>
                  /\ kpc' = IF kpc = "reading" THEN "returned" ELSE "done"
             ELSE /\ kline' = text
                  /\ UNCHANGED <<kres, kpc>>
    /\ UNCHANGED <<kwire, kcut>>

\* hello's timeout fires: the read future is dropped, and `line` with it
KTimeout ==
    /\ kpc = "reading"
    /\ kcut' = kline
    /\ kline' = <<>>
    /\ kres' = Append(kres, Err("deadline has elapsed"))
    /\ kpc' = "returned"
    /\ UNCHANGED <<kwire, kpipe>>

\* the caller calls read_response_line on the same session
KReadAgain ==
    /\ kpc = "returned"
    /\ kpc' = "reading_again"
    /\ UNCHANGED <<kwire, kpipe, kline, kcut, kres>>

InitCancel ==
    /\ \E n1 \in 1..MaxPieces, n2 \in 0..MaxPieces :
          kwire = LinePieces(1, n1) \o LinePieces(2, n2)
    /\ kpc = "idle" /\ kpipe = <<>> /\ kline = <<>> /\ kcut = <<>> /\ kres = <<>>
    /\ AgentIdle /\ ClientIdle /\ ProbeIdle /\ DeployIdle /\ TermIdle
    /\ FrameIdle /\ CmdIdle /\ ListIdle /\ CodecIdle /\ SaveIdle /\ SelectIdle /\ PanelIdle

NextCancel ==
    \/ KArrive /\ UNCHANGED notCancel
    \/ KHelloRead /\ UNCHANGED notCancel
    \/ KPoll /\ UNCHANGED notCancel
    \/ KTimeout /\ UNCHANGED notCancel
    \/ KReadAgain /\ UNCHANGED notCancel

SpecCancel == InitCancel /\ [][NextCancel]_vars

\* --------------------------------------------------- the Deploy button
\* the task's position is moved and deploy_running is set as the branch says
TaskStep(i, to, running) ==
    /\ tasks' = [tasks EXCEPT ![i] = to]
    /\ deploy_running' = running
    /\ UNCHANGED ignored

\* the mouse-up handler with deploy_running true: `return`
PanelClickIgnored ==
    /\ deploy_running
    /\ ignored < MaxClicks
    /\ ignored' = ignored + 1
    /\ UNCHANGED <<deploy_running, tasks>>

\* the mouse-up handler otherwise: set_deploy_running(true), then the
\* callback, which spawns the task
PanelClickStarts ==
    /\ ~deploy_running
    /\ Len(tasks) < MaxClicks
    /\ deploy_running' = TRUE
    /\ tasks' = Append(tasks, "runtime")
    /\ UNCHANGED ignored

\* Builder::new_current_thread().enable_all().build().map(..): the workflow
\* runs inside map, so an Err of build ends the task with nothing done
CbRuntime(i) ==
    /\ tasks[i] = "runtime"
    /\ \E built \in BOOLEAN : TaskStep(i, IF built THEN "target" ELSE "ended", deploy_running)

\* `if let Some(target) = target`, else "no target selected"
CbTarget(i) ==
    /\ tasks[i] = "target"
    /\ \E has_target \in BOOLEAN :
          IF has_target THEN TaskStep(i, "probe", deploy_running)
          ELSE TaskStep(i, "ended", FALSE)

\* remote_user_is_root(..).await.unwrap_or(false) returns
CbProbe(i) ==
    /\ tasks[i] = "probe"
    /\ TaskStep(i, "artifact", deploy_running)

\* `if !artifact.exists()`: status, set_deploy_running(false), return
CbArtifact(i) ==
    /\ tasks[i] = "artifact"
    /\ \E exists \in BOOLEAN :
          IF exists THEN TaskStep(i, "deploy", deploy_running)
          ELSE TaskStep(i, "ended", FALSE)

\* deploy_agent(..).await returns: Ok goes on to verify, Err ends
CbDeploy(i) ==
    /\ tasks[i] = "deploy"
    /\ \E deployed \in BOOLEAN :
          IF deployed THEN TaskStep(i, "verify", deploy_running)
          ELSE TaskStep(i, "ended", FALSE)

\* check_agent(..).await returns: the three arms of the match
CbVerify(i) ==
    /\ tasks[i] = "verify"
    /\ \E r \in CheckResults :
          IF Runnable(r) THEN TaskStep(i, "spawn", deploy_running)
          ELSE TaskStep(i, "ended", FALSE)

\* `if let Ok(mut client) = run_agent(..).await`, else "could not open session"
CbSpawn(i) ==
    /\ tasks[i] = "spawn"
    /\ \E spawned \in BOOLEAN :
          IF spawned THEN TaskStep(i, "hello", deploy_running)
          ELSE TaskStep(i, "ended", FALSE)

\* client.hello(.., Some(timeout)).await returns: both arms set
\* deploy_running to false, then terminate is called
CbHello(i) ==
    /\ tasks[i] = "hello"
    /\ \E h \in HelloOutcomes : TaskStep(i, "terminate", FALSE)

\* client.terminate().await returns
CbTerminate(i) ==
    /\ tasks[i] = "terminate"
    /\ TaskStep(i, "ended", deploy_running)

InitPanel ==
    /\ deploy_running = FALSE /\ tasks = <<>> /\ ignored = 0
    /\ AgentIdle /\ ClientIdle /\ ProbeIdle /\ DeployIdle /\ TermIdle
    /\ FrameIdle /\ CmdIdle /\ ListIdle /\ CodecIdle /\ SaveIdle /\ SelectIdle
    /\ CancelIdle

NextPanel ==
    \/ PanelClickIgnored /\ UNCHANGED notPanel
    \/ PanelClickStarts /\ UNCHANGED notPanel
    \/ \E i \in 1..Len(tasks) : CbRuntime(i) /\ UNCHANGED notPanel
    \/ \E i \in 1..Len(tasks) : CbTarget(i) /\ UNCHANGED notPanel
    \/ \E i \in 1..Len(tasks) : CbProbe(i) /\ UNCHANGED notPanel
    \/ \E i \in 1..Len(tasks) : CbArtifact(i) /\ UNCHANGED notPanel
    \/ \E i \in 1..Len(tasks) : CbDeploy(i) /\ UNCHANGED notPanel
    \/ \E i \in 1..Len(tasks) : CbVerify(i) /\ UNCHANGED notPanel
    \/ \E i \in 1..Len(tasks) : CbSpawn(i) /\ UNCHANGED notPanel
    \/ \E i \in 1..Len(tasks) : CbHello(i) /\ UNCHANGED notPanel
    \/ \E i \in 1..Len(tasks) : CbTerminate(i) /\ UNCHANGED notPanel

\* the steps that end by themselves: local ones and those under a
\* tokio::time::timeout.  remote_user_is_root and check_agent await the ssh
\* child with no timeout, and deploy_agent starts with the same probe.
PanelFairness ==
    \A i \in 1..MaxClicks :
       /\ WF_vars(i <= Len(tasks) /\ CbRuntime(i) /\ UNCHANGED notPanel)
       /\ WF_vars(i <= Len(tasks) /\ CbTarget(i) /\ UNCHANGED notPanel)
       /\ WF_vars(i <= Len(tasks) /\ CbArtifact(i) /\ UNCHANGED notPanel)
       /\ WF_vars(i <= Len(tasks) /\ CbSpawn(i) /\ UNCHANGED notPanel)
       /\ WF_vars(i <= Len(tasks) /\ CbHello(i) /\ UNCHANGED notPanel)
       /\ WF_vars(i <= Len(tasks) /\ CbTerminate(i) /\ UNCHANGED notPanel)

SpecPanel == InitPanel /\ [][NextPanel]_vars /\ PanelFairness

\* ------------------------------------------------------- agent: claims
\* the Response type a parsed Command gets when it succeeds
OkTypeOf(tag) ==
    CASE tag = "hello" -> "hello_ack"
      [] tag = "sys_info" -> "sys_info_ok"
      [] tag = "static_config" -> "static_config_ok"
      [] tag = "services_list" -> "services_list_ok"
      [] tag = "list_dir" -> "list_dir_ok"

\* a line that reaches serde_json::from_str and does not parse as a Command
IsMalformed(l) == l.kind \in {"text", "obj"} /\ ~FromStr(l).ok

\* a line the loop hands to the parser: not blank, and readable as UTF-8
IsAnswerable(l) == l.kind \in {"text", "obj"}

AnswersTo(i) == {k \in 1..Len(stdout) : answered[k] = i}

\* the iteration for the line at pos is over
IterationDone == apc \in {"read", "exit_ok", "exit_err"}

\* C1: every Response to a line that parses as a Command with id N carries id N,
\* success or Error alike (a ListDir whose directory cannot be opened included),
\* and an Error with id 0 answers only a line that does not parse.
C1_ResponseCarriesCommandId ==
    \A k \in 1..Len(stdout) :
        LET l == stdin[answered[k]]
        IN /\ FromStr(l).ok => stdout[k].id = l.id
           /\ (stdout[k].type = "error" /\ stdout[k].id = 0) => ~FromStr(l).ok

\* C2: a malformed line gets exactly one Response, an Error with id 0, and the
\* loop is back at its head afterwards: it ends neither with an error nor before
\* the end of the input.
C2_MalformedLineIsolated ==
    \A i \in 1..pos :
        IsMalformed(stdin[i]) =>
            /\ (i < pos \/ IterationDone) => Cardinality(AnswersTo(i)) = 1
            /\ Cardinality(AnswersTo(i)) <= 1
            /\ \A k \in AnswersTo(i) : stdout[k].type = "error" /\ stdout[k].id = 0
            /\ (i = pos /\ IterationDone) =>
                   \/ apc = "read"
                   \/ apc = "exit_ok" /\ pos = Len(stdin)

\* C2 witness: a malformed line was answered and a later line was answered after it
C2_Witness ==
    \E i \in 1..pos :
        /\ IsMalformed(stdin[i])
        /\ AnswersTo(i) # {}
        /\ \E k \in 1..Len(stdout) : answered[k] > i

\* C3: at the loop head everything written is flushed and there is exactly one
\* Response per line handed to the parser; the k-th Response answers the k-th
\* such line and is of the type that line calls for.
C3_OneResponsePerLineInOrder ==
    /\ apc = "read" =>
          /\ wbuf = <<>>
          /\ Len(stdout) = Cardinality({i \in 1..pos : IsAnswerable(stdin[i])})
    /\ Len(wbuf) <= 1
    /\ \A k \in 1..Len(stdout) :
          LET i == answered[k]
              l == stdin[i]
          IN /\ IsAnswerable(l)
             /\ Cardinality({j \in 1..i : IsAnswerable(stdin[j])}) = k
             /\ stdout[k].type \in
                   (IF FromStr(l).ok THEN {OkTypeOf(l.cmd), "error"} ELSE {"error"})

\* C3 witness: three lines read, a blank one among them, two Responses out
C3_Witness ==
    /\ apc = "read"
    /\ pos = 3
    /\ Len(stdout) = 2
    /\ \E i \in 1..pos : IsBlank(stdin[i])
    /\ stdout[1].type # stdout[2].type

\* C4: the loop ends only at EOF of stdin: once main has returned, every line was
\* consumed, main returned Ok, and every line handed to it has its Response.
C4_OnlyEofEndsLoop ==
    apc \in {"exit_ok", "exit_err"} =>
        /\ apc = "exit_ok"
        /\ pos = Len(stdin)
        /\ \A i \in 1..Len(stdin) : ~IsBlank(stdin[i]) => AnswersTo(i) # {}

\* C5: every capability listed in a HelloAck names a Command of the protocol
\* and the agent answers that Command with a Response that is not an Error.
C5_AdvertisedCapabilitiesHonoured ==
    \A k \in 1..Len(stdout) :
        stdout[k].type = "hello_ack" =>
            \A n \in 1..Len(stdout[k].body.capabilities) :
                LET c == stdout[k].body.capabilities[n]
                IN /\ \E v \in CommandVariants : SnakeCase(v) = c
                   /\ RespondTo(Obj(c, {"cmd", "id"}, 1, <<>>)).type # "error"

\* ------------------------------------------------------ client: claims
HelloReturned == cpc \in {"hello_returned", "await_sys_info", "terminating", "done"}

\* the capability a feature Command needs
CapabilityOf(variant) ==
    CASE variant = "SysInfo" -> "sys_info"
      [] variant = "StaticConfig" -> "static_config"
      [] variant = "ServicesList" -> "services_list"

SeqRange(q) == {q[i] : i \in 1..Len(q)}

\* C6: hello returns Ok exactly when the one line it read is a HelloAck whose id
\* is the id of the Hello it sent; an Error with that id, another id, another
\* type, an unparseable line, a closed stream, a timeout or a failed send all
\* give Err, and hello reads at most one line.
C6_HelloOnlyOnMatchingAck ==
    HelloReturned =>
        /\ hello_res.ok <=>
              /\ sent # <<>> /\ sent[1].variant = "Hello"
              /\ reads # <<>>
              /\ reads[1].ev = "line"
              /\ reads[1].wire.kind = "obj"
              /\ reads[1].wire.type = "hello_ack"
              /\ reads[1].wire.id = sent[1].id
        /\ cpc = "hello_returned" => Len(reads) <= 1
        /\ hello_res.ok => hello_res.val = reads[1].wire.body

\* C6 witness: hello has returned Ok
C6_Witness == cpc = "hello_returned" /\ hello_res.ok /\ Len(reads) = 1

\* C7: a feature command is on the wire only if the HelloAck of the session
\* listed its capability.
C7_FeatureCommandsAdvertised ==
    \A k \in 1..Len(sent) :
        sent[k].variant \in {"SysInfo", "StaticConfig", "ServicesList"} =>
            /\ hello_res.ok
            /\ CapabilityOf(sent[k].variant) \in SeqRange(hello_res.val.capabilities)

\* ------------------------------------------------------- probe: claims
\* the non-fatal "agent missing" status
IsMissingStatus(r) ==
    r.ok /\ ~r.val.present /\ ~r.val.can_run /\ ~r.val.has_version

\* C8: a non-zero outcome caused by a connectivity or authentication failure is
\* returned as a hard error, never as present=false, can_run=false.
C8_ConnectivityFailureIsHardError ==
    (ppc = "returned" /\ ssh.out.cause \in {"auth", "refused", "resolve", "connect_timeout"})
        => ~probe_res.ok

\* C9: check_agent never stays pending beyond the caller's timeout.
C9_ReturnsWithinTimeout ==
    ppc = "awaiting" => elapsed <= dur

\* C10: a probe of a path that is missing or not executable (exit code 126 or
\* 127, or a stderr text of the missing/not-executable kind, with a non-zero
\* outcome) returns Ok with present=false, can_run=false and no version.
C10_MissingIsNonFatal ==
    ppc = "returned" /\ ssh.phase = "exited" =>
        LET o == ssh.out
        IN /\ o.cause \in {"missing", "not_executable"} => IsMissingStatus(probe_res)
           /\ (~Success(o.status)
               /\ (\/ o.status.has_code /\ o.status.code = 126
                   \/ o.status.has_code /\ o.status.code = 127
                   \/ Contains(o.stderr, <<"No", "such", "file", "or", "directory">>)
                   \/ Contains(o.stderr, <<"not", "found">>)
                   \/ Contains(o.stderr, <<"Exec", "format", "error">>)
                   \/ Contains(o.stderr, <<"cannot", "execute">>)))
              => IsMissingStatus(probe_res)

\* C10 witness: a probe of a missing path has returned the non-fatal status
C10_Witness ==
    /\ ppc = "returned"
    /\ ssh.out.cause = "missing"
    /\ ssh.out.status.code = 127
    /\ IsMissingStatus(probe_res)

\* the texts of the lines of stdout that are not blank, in order
RECURSIVE NonBlankTexts(_)
NonBlankTexts(ls) ==
    IF ls = <<>> THEN <<>>
    ELSE (IF Head(ls).text = "" THEN <<>> ELSE <<Head(ls).text>>) \o NonBlankTexts(Tail(ls))

\* C11: a probe that exits zero and printed a non-blank line returns
\* present=true, can_run=true and, as version, the first non-blank line trimmed.
C11_ZeroExitGivesVersion ==
    (/\ ppc = "returned" /\ ssh.phase = "exited"
     /\ Success(ssh.out.status)
     /\ NonBlankTexts(ssh.out.stdout) # <<>>)
        => /\ probe_res.ok
           /\ probe_res.val.present
           /\ probe_res.val.can_run
           /\ probe_res.val.has_version
           /\ probe_res.val.version = NonBlankTexts(ssh.out.stdout)[1]

\* C11 witness: the version was taken from the second line, the first being blank
C11_Witness ==
    /\ ppc = "returned"
    /\ Success(ssh.out.status)
    /\ Len(ssh.out.stdout) = 2
    /\ ssh.out.stdout[1].text = ""
    /\ probe_res.ok /\ probe_res.val.version = "1.2.3"

\* C12: in every AgentStatus returned, can_run implies present.
C12_CanRunImpliesPresent ==
    (ppc = "returned" /\ probe_res.ok) => (probe_res.val.can_run => probe_res.val.present)

\* ------------------------------------------------------ deploy: claims
\* deploy_agent has returned to its caller in this run
DeployReturned == dres # Err("none")

Failed(o) == o \notin {"none", "ok"}

\* C13: deploy_agent returns Ok only if mkdir succeeded, rsync or scp succeeded
\* and, when scp was the transfer that succeeded, chmod succeeded; a failed
\* mkdir, a failed transfer (both attempts) or a failed chmod makes it return an
\* error and no later step runs.
C13_OkOnlyIfEveryStepSucceeded ==
    /\ dres.ok =>
          /\ StepOk(dsteps.mkdir)
          /\ StepOk(dsteps.rsync) \/ StepOk(dsteps.scp)
          /\ ~StepOk(dsteps.rsync) => StepOk(dsteps.chmod)
    /\ Failed(dsteps.mkdir) =>
          /\ DeployReturned /\ ~dres.ok
          /\ dsteps.rsync = "none" /\ dsteps.scp = "none" /\ dsteps.chmod = "none"
    /\ Failed(dsteps.rsync) /\ Failed(dsteps.scp) =>
          /\ dsteps.chmod = "none"
          /\ dpc # "d_uploaded" => DeployReturned /\ ~dres.ok
    /\ Failed(dsteps.chmod) => DeployReturned /\ ~dres.ok

C13_Witness ==
    /\ dres.ok /\ Failed(dsteps.rsync) /\ StepOk(dsteps.scp) /\ StepOk(dsteps.chmod)

\* C14: scp is attempted if and only if rsync did not succeed, used_rsync is
\* true if and only if rsync succeeded, and chmod runs if and only if scp was
\* the transfer that uploaded the artifact.
C14_FallbackIffPrimaryFailed ==
    /\ dsteps.scp # "none" => Failed(dsteps.rsync)
    /\ Failed(dsteps.rsync) /\ dpc # "d_scp" => dsteps.scp # "none"
    /\ dres.ok => (dres.val.used_rsync <=> StepOk(dsteps.rsync))
    /\ dsteps.chmod # "none" => StepOk(dsteps.scp)
    /\ StepOk(dsteps.scp) /\ dpc \notin {"d_uploaded", "d_chmod"} => dsteps.chmod # "none"

C14_Witness ==
    /\ dres.ok /\ ~dres.val.used_rsync /\ dsteps.rsync = "timeout" /\ dsteps.chmod = "ok"

\* C15: two runs of deploy_agent for the same target and version give the same
\* remote_path, and the second run gives no error, whatever the privilege
\* probe and the transfer attempts did in either run.
C15_SecondRunSamePathNoError ==
    prev # Err("none") /\ DeployReturned =>
        /\ dres.ok \/ Failed(dsteps.mkdir) \/ Failed(dsteps.scp) \/ Failed(dsteps.chmod)
        /\ prev.ok /\ dres.ok => dres.val.remote_path = prev.val.remote_path

\* C16: root installs under the system-wide base and any other user under the
\* home-relative base, also when the privilege probe fails.
C16_BaseFollowsRemoteUser ==
    dres.ok =>
        dres.val.remote_path.base = IF denv.root THEN SystemBase ELSE HomeBase

\* C17: every DeployResult has remote_path <base>/<version>/slarti-remote with
\* base one of the two fixed bases and version the version argument, whatever
\* the local artifact's file name and whichever transfer succeeded.
C17_RemotePathShape ==
    dres.ok =>
        /\ dres.val.remote_path.base \in {SystemBase, HomeBase}
        /\ dres.val.remote_path.version = denv.version
        /\ dres.val.remote_path.file = BinaryName

C17_Witness ==
    /\ dres.ok /\ dart # BinaryName /\ denv.version = "0.2.0" /\ ~dres.val.used_rsync

WorkflowOrder == <<"deploy_agent", "check_agent", "run_agent", "hello", "terminate">>

\* C18: the deploy workflow calls deploy_agent, check_agent, run_agent and
\* hello in that order; check_agent is called only after deploy_agent
\* returned Ok, the session is spawned only after check_agent reported present
\* and can_run, and no two of the calls are in flight together.
C18_WorkflowStrictlySequenced ==
    /\ Len(wlog) <= Len(WorkflowOrder)
    /\ wlog = SubSeq(WorkflowOrder, 1, Len(wlog))
    /\ Len(wlog) >= 2 => dres.ok
    /\ Len(wlog) >= 3 => Runnable(verify_res)
    /\ Cardinality(inflight) <= 1

C18_Witness ==
    /\ wlog = WorkflowOrder /\ dhello.ok

\* ------------------------------------------------------ session: claims
\* C19: on a client session the first command sent is Hello, and a further
\* command is sent only after a HelloAck was received; after a failed
\* handshake no further command is sent.
C19_CommandsOnlyAfterHelloAck ==
    /\ sent # <<>> => sent[1].variant = "Hello"
    /\ Len(sent) >= 2 =>
          /\ reads # <<>>
          /\ reads[1].ev = "line"
          /\ reads[1].wire.kind = "obj"
          /\ reads[1].wire.type = "hello_ack"

\* ---------------------------------------------------- terminate: claims
IsPrefix(a, b) == Len(a) <= Len(b) /\ a = SubSeq(b, 1, Len(a))

WorkflowEnded == cpc \in {"done", "dropped", "no_session"}

\* C22: a session dropped while its child has not exited gets a kill of the
\* child in the same step, and on every path of the select and the deploy
\* workflow the spawned session is terminated or dropped: once the workflow has
\* ended no spawned child is left running.
C22_NoChildOutlivesWorkflow ==
    /\ WorkflowEnded => child # "running"
    /\ cpc = "dropped" => child \in {"exited", "killed"}
    /\ cpc = "done" => tpc = "returned" /\ child \in {"exited", "killed"}
    /\ cpc = "no_session" <=> (child = "none" /\ cpc # "idle")

C22_Witness ==
    /\ cpc = "dropped" /\ child = "killed" /\ "kill" \notin {tlog[i] : i \in 1..Len(tlog)}

\* ------------------------------------------------------- framing: claims
\* C23: each read_response_line call consumes exactly one line and returns the
\* Response parsed from that line or an error; at the end of the stream it
\* returns an error, never a Response.
C23_OneLinePerCall ==
    /\ rpos = Min(Len(rres), Len(rstream))
    /\ \A k \in 1..Len(rres) :
          LET e == rres[k]
          IN IF k <= Len(rstream)
             THEN /\ e.line = k
                  /\ e.res.ok =>
                        /\ rstream[k].kind = "obj"
                        /\ SnakeCase(e.res.val.variant) = rstream[k].type
                        /\ e.res.val.id = rstream[k].id
                        /\ e.res.val.body = rstream[k].body
             ELSE /\ e.line = 0
                  /\ ~e.res.ok
                  /\ e.res.err = "agent stdout closed"

C23_Witness ==
    /\ Len(rres) = 3
    /\ rres[1].res.ok /\ ~rres[2].res.ok /\ rres[2].line = 2
    /\ rres[3].res.err = "agent stdout closed"

\* C24: a last fragment without LF means the peer is gone: read_response_line
\* returns no Response parsed from such a fragment, and the agent executes no
\* Command from an unterminated last line.
C24_UnterminatedFragmentIgnored ==
    /\ \A k \in 1..Len(rres) :
          (rres[k].line = Len(rstream) /\ ~rlf) => ~rres[k].res.ok
    /\ ~stdin_lf =>
          \A k \in 1..Len(stdout) :
              answered[k] = Len(stdin) => ~FromStr(stdin[Len(stdin)]).ok

\* ------------------------------------------------------- paging: claims
\* the directory's whole listing, in the order of ListDir
Listing(path) == SortEntries(ReadDir(expand_tilde(path)).val)
Readable(path) == ReadDir(expand_tilde(path)).ok

RECURSIVE Concat(_)
Concat(pages) ==
    IF pages = <<>> THEN <<>>
    ELSE Concat(SubSeq(pages, 1, Len(pages) - 1)) \o pages[Len(pages)].val.body.entries

PagingApplies == Readable(lpath) /\ 0 < lk /\ lk < Len(Listing(lpath))

OneCallEntries(path, max) ==
    handle_command(ListDirCmd(path, TRUE, max, TRUE, 0)).val.body.entries

\* every page but the last says eof = false, the last says eof = true
EofOnLastPageOnly ==
    \A i \in 1..Len(lpages) :
        /\ lpages[i].ok
        /\ lpages[i].val.body.eof <=>
              Returned(SubSeq(lpages, 1, i)) >= Len(Listing(lpath))
        /\ lpages[i].val.body.eof => i = Len(lpages)

RunComplete == lpages # <<>> /\ lpages[Len(lpages)].ok /\ lpages[Len(lpages)].val.body.eof

\* C25 as stated: paging an unchanging directory of M entries with max = K,
\* 0 < K < M, gives eof = false on every page but the last and eof = true on the
\* last, and the pages together equal the entries of one call with skip = 0 and
\* max = M.
C25_PagesEqualOneCall ==
    PagingApplies =>
        /\ EofOnLastPageOnly
        /\ RunComplete => Concat(lpages) = OneCallEntries(lpath, Len(Listing(lpath)))

\* C25 amended: as above, with the pages together equal to the directory's
\* whole listing in directories-first, case-insensitive order, which is what
\* one call with skip = 0 and max = M returns when M is at most 10000.
C25_PagesEqualListing ==
    PagingApplies =>
        /\ EofOnLastPageOnly
        /\ RunComplete =>
              /\ Concat(lpages) = Listing(lpath)
              /\ Len(Listing(lpath)) <= MaxCeiling =>
                    Concat(lpages) = OneCallEntries(lpath, Len(Listing(lpath)))

C25_Witness ==
    /\ PagingApplies /\ RunComplete /\ lpath = CaseDir /\ Len(lpages) = 3

\* every ListDir call made so far that got a ListDirOk, with its max and skip
\* options as the caller gave them
OkCalls ==
    {[cmd |-> ListDirCmd(lpath, TRUE, lk, TRUE, Returned(SubSeq(lpages, 1, i - 1))),
      body |-> lpages[i].val.body] : i \in {j \in 1..Len(lpages) : lpages[j].ok}}
    \cup (IF lcall.called /\ lcall.res.ok
          THEN {[cmd |-> lcall.cmd, body |-> lcall.res.val.body]} ELSE {})

SkipOf(cmd) == IF cmd.has_skip THEN cmd.skip ELSE 0
Max(a, b) == IF a >= b THEN a ELSE b

\* C26: the eof flag of a ListDirOk equals
\* (skip + number of entries returned >= total number of entries).
C26_EofIsSkipPlusReturned ==
    \A c \in OkCalls :
        ~Overflows(SkipOf(c.cmd), EffectiveMax(c.cmd.has_max, c.cmd.max)) =>
            (c.body.eof <=>
                (SkipOf(c.cmd) + Len(c.body.entries) >= Len(ReadDir(expand_tilde(lpath)).val)))

C26_Witness ==
    /\ lcall.called /\ lcall.res.ok /\ lpath = CaseDir
    /\ lcall.cmd.has_skip /\ lcall.cmd.skip = 1
    /\ Len(lcall.res.val.body.entries) = 2 /\ ~lcall.res.val.body.eof

\* C27: in a ListDirOk no directory comes after a non-directory, the names
\* inside each group do not decrease in their lower-cased form, and the entries
\* are a contiguous slice, from skip on, of the directory's one ordering.
C27_DirectoriesFirstThenName ==
    \A c \in OkCalls :
        LET es == c.body.entries
        IN /\ \A i \in 1..(Len(es) - 1) :
                 /\ ~(~es[i].is_dir /\ es[i + 1].is_dir)
                 /\ es[i].is_dir = es[i + 1].is_dir =>
                       StrCmp(to_lowercase(es[i].name), to_lowercase(es[i + 1].name)) # "gt"
           /\ es = SubSeq(Listing(lpath), SkipOf(c.cmd) + 1, SkipOf(c.cmd) + Len(es))

C27_Witness ==
    /\ lcall.called /\ lcall.res.ok /\ lpath = CaseDir /\ SkipOf(lcall.cmd) = 1
    /\ Len(lcall.res.val.body.entries) = 4
    /\ lcall.res.val.body.entries[1].is_dir /\ lcall.res.val.body.entries[1].name = <<90>>
    /\ lcall.res.val.body.entries[2].name = <<65>>

\* C28: a ListDirOk carries min(E, max(total - skip, 0)) entries, E being
\* min(max, 10000) when max is given and 2000 when it is not, skip being 0 when
\* it is not given; it never carries more than 10000 entries.
C28_ReturnedCount ==
    \A c \in OkCalls :
        LET E == IF c.cmd.has_max THEN Min(c.cmd.max, MaxCeiling) ELSE DefaultMax
            total == Len(ReadDir(expand_tilde(lpath)).val)
        IN /\ Len(c.body.entries) = Min(E, Max(total - SkipOf(c.cmd), 0))
           /\ Len(c.body.entries) <= MaxCeiling

C28_Witness ==
    /\ lcall.called /\ lcall.res.ok /\ lpath = BigDir
    /\ lcall.cmd.has_max /\ lcall.cmd.max > MaxCeiling /\ ~lcall.cmd.has_skip
    /\ Len(lcall.res.val.body.entries) = MaxCeiling

\* ---- C29 ------------------------------------------------------------
HelloEntries == {i \in 1..Len(hlog) : hlog[i].cmd.variant = "Hello"}

\* C29: every Hello with id N is answered with HelloAck carrying id N, the
\* build's agent_version and the advertised capability list, and two Hello
\* commands that differ only in client_version get equal responses.
C29_HelloAckIgnoresClientVersion ==
    /\ \A i \in HelloEntries :
          /\ hlog[i].res = Ok(Response("HelloAck", hlog[i].cmd.id,
                                       [agent_version |-> "AGENT_VERSION",
                                        capabilities |-> AdvertisedCapabilities]))
          /\ hlog[i].out.type = "hello_ack" /\ hlog[i].out.id = hlog[i].cmd.id
    /\ \A i, j \in HelloEntries :
          hlog[i].cmd.id = hlog[j].cmd.id =>
             hlog[i].res = hlog[j].res /\ hlog[i].out = hlog[j].out

\* two Hellos with one id and different client versions were answered
C29_Witness ==
    \E i, j \in HelloEntries :
       /\ hlog[i].cmd.id = hlog[j].cmd.id
       /\ hlog[i].cmd.client_version # hlog[j].cmd.client_version
       /\ hlog[i].res.ok /\ hlog[j].res.ok

\* ---- C30 ------------------------------------------------------------
OkVariant(v) ==
    CASE v = "SysInfo" -> "SysInfoOk"
      [] v = "StaticConfig" -> "StaticConfigOk"
      [] v = "ServicesList" -> "ServicesListOk"

\* the values the answer carries where the host's sources are unavailable
Fallbacks(e) ==
    LET b == e.res.val.body
    IN CASE e.cmd.variant = "SysInfo" ->
              /\ aenv.kernel = "missing" => b.info.kernel = "unknown"
              /\ aenv.uptime # "ok" => b.info.uptime_secs = 0
              /\ aenv.hostname = "missing" /\ ~aenv.hostname_env => b.info.hostname = "unknown"
         [] e.cmd.variant = "StaticConfig" ->
              /\ aenv.os_release = "missing" => ~b.config.has_os_release
              /\ aenv.cpuinfo = "missing" => b.config.cpu_count = 0
              /\ aenv.meminfo # "ok" => b.config.mem_total_bytes = 0
         [] e.cmd.variant = "ServicesList" ->
              /\ aenv.systemctl \in {"absent", "fails"} => b.services = <<>>
              /\ aenv.systemctl = "units_only" =>
                    \A k \in 1..Len(b.services) : ~b.services[k].has_enabled

InfoEntries ==
    {i \in 1..Len(hlog) : hlog[i].cmd.variant \in {"SysInfo", "StaticConfig", "ServicesList"}}

C31_CommandRoundTrip ==
    /\ cpos \in {"encoded", "decoded"} =>
          /\ cline.kind = "obj" /\ "cmd" \in cline.keys
          /\ cline.cmd = SnakeCase(ccmd.variant)
          /\ WellEscaped(cline.path) /\ WellEscaped(cline.client_version)
    /\ cpos = "decoded" => cdec = Ok(ccmd)

\* a ListDir without max, with skip and with a line feed in its path came back
C31_Witness ==
    /\ cpos = "decoded" /\ cdec.ok
    /\ ccmd.variant = "ListDir" /\ ~ccmd.has_max /\ ccmd.has_skip
    /\ \E k \in 1..Len(ccmd.path) : ccmd.path[k] = "\n"

\* ---- C32 ------------------------------------------------------------
\* C32: a crash at any point of save_agent_state leaves the alias's file as
\* the complete previous record or the complete new record, never empty or
\* partly written.
C32_CrashLeavesWholeRecord ==
    spc = "crashed" => sfile \in {FileOf(sprev), FileOf(snew)}

\* ---- C33 ------------------------------------------------------------
\* C33: when check_agent returned a hard error in the host-selection
\* workflow, the status shown once the workflow has finished is the reported
\* error, and it differs from the status of an agent that is not present.
C33_HardErrorStaysShown ==
    (wpc = "done" /\ ~sel_check.ok) =>
        status = ErrorStatus(sel_check.err) /\ status # NotPresentStatus

\* ---- C34 ------------------------------------------------------------
\* the remote_path a caller computes from remote_user_is_root(..).unwrap_or(false)
\* when its probe ends as o
ProbedPath(o) ==
    RemotePath(unwrap_or_false(remote_user_is_root(o, denv.root)), denv.version, BinaryName)

\* C34: for one alias and version the path on_select passes to check_agent,
\* the path the deploy callback passes to check_agent and the remote_path
\* deploy_agent produces are the same, whatever the configured user and the
\* outcome of each privilege probe.
C34_OnePathPerAlias ==
    /\ wpc # "idle" => \A o \in ProbeEnds : sel_path = ProbedPath(o)
    /\ \A o1, o2 \in ProbeEnds : ProbedPath(o1) = ProbedPath(o2)

\* ---- C38 ------------------------------------------------------------
\* C38: in every record the host-selection workflow writes for an alias,
\* last_deployed_version is present exactly when last_seen_ok is true.
C38_VersionIffSeenOk ==
    \A k \in 1..Len(records) : records[k].has_version <=> records[k].last_seen_ok

\* a record was written after the handshake with a runnable agent failed
C38_Witness ==
    /\ wpc = "done" /\ Runnable(sel_check) /\ records # <<>>
    /\ cpc = "done" /\ ~hello_res.ok /\ ~records[1].last_seen_ok

\* ---- C37 ------------------------------------------------------------
\* C37: a click on Deploy while deploy_running is true starts no second
\* deploy workflow, and every path of a started deploy workflow eventually
\* sets deploy_running back to false.
C37_DeployRunningGuardsAndClears ==
    /\ [][deploy_running => Len(tasks') = Len(tasks)]_vars
    /\ [](deploy_running => <>(~deploy_running))

\* ---- C36 ------------------------------------------------------------
\* C36: during deploy_agent at most one transfer process writes to the remote
\* target at a time: where the scp fallback has run, the rsync attempt had
\* stopped running, also when rsync was abandoned by its timeout.
C36_OneTransferAtATime ==
    dsteps.scp \in {"ok", "fail", "timeout"} => ~rsync_alive

\* ---- C35 ------------------------------------------------------------
\* C35: when hello's timeout fires with a response line partly received, no
\* byte of that line is lost: the next read_response_line on the session
\* returns that complete Response, not a fragment or a parse error.
C35_TimeoutLosesNoBytes ==
    (kpc = "done" /\ kcut # <<>>) =>
        kres[Len(kres)] = Ok(kcut[1].line)

\* ---- C39 ------------------------------------------------------------
\* the empty and the whitespace-only lines among those read so far
BlankRead == {i \in 1..pos : stdin[i].kind \in {"empty", "spaces"}}

\* the lines after i up to j are all blank
BlankBetween(i, j) == \A m \in (i + 1)..(j - 1) : m \in BlankRead

\* C39: an empty or whitespace-only line makes the agent write nothing and
\* does not end the loop: the output is as it was before the line, and the
\* next non-blank line is answered as it would be without it.
C39_BlankLineSkipped ==
    \A i \in BlankRead :
       /\ AnswersTo(i) = {}
       /\ i = pos => /\ apc \in {"read", "exit_ok"}
                     /\ apc = "exit_ok" => pos = Len(stdin)
                     /\ wbuf = <<>>
                     /\ \A k \in 1..Len(stdout) : answered[k] < i
       /\ \A j \in (i + 1)..pos :
             (BlankBetween(i, j) /\ IsAnswerable(stdin[j]) /\ (j < pos \/ IterationDone)) =>
                 /\ Cardinality(AnswersTo(j)) = 1
                 /\ \A k \in AnswersTo(j) : stdout[k] = RespondTo(stdin[j])

\* a whitespace-only line between two answered commands
C39_Witness ==
    /\ Len(stdin) = 3 /\ pos = 3 /\ apc = "exit_ok"
    /\ stdin[2].kind = "spaces"
    /\ FromStr(stdin[1]).ok /\ FromStr(stdin[3]).ok
    /\ Len(stdout) = 2 /\ answered = <<1, 3>>

\* ---- C40 ------------------------------------------------------------
\* C40: for every skip and max of the unsigned range, those whose sum exceeds
\* the integer maximum included, a ListDir with skip at or past the number of
\* entries of a readable directory returns ListDirOk with no entries and
\* eof = true, and the agent does not crash.
C40_SkipPastEndIsEmptyEof ==
    (/\ lcall.called
     /\ Readable(lpath)
     /\ SkipOf(lcall.cmd) >= Len(Listing(lpath))) =>
        /\ lcall.res # Panic
        /\ lcall.res.ok
        /\ lcall.res.val.variant = "ListDirOk"
        /\ lcall.res.val.body.entries = <<>>
        /\ lcall.res.val.body.eof

====
